---- MODULE Spec2Model ----
(***************************************************************************)
(* Model of cogent3.core.annotation (annotatable containers and features)  *)
(* and cogent3.core.annotation_db (the GFF and GenBank annotation stores). *)
(*                                                                         *)
(* The specifications that share the module:                               *)
(*   Spec          the object graph of sequences and features under        *)
(*                 add_annotation / attach / detach / clear / slicing /    *)
(*                 reverse complement;                                     *)
(*   SpecFeature   features of the classes AnnotatableFeature, _Variable   *)
(*                 and Source under slicing, reverse complement,           *)
(*                 get_slice, without_lost_spans and copy_annotations_to;  *)
(*   SpecQuery     a sequence with two features, nested or side by side,   *)
(*                 under slicing and the queries on annotations;           *)
(*   SpecJoin      the same sequence under slicing and concatenation;      *)
(*   SpecAttach    the same sequence under add_annotation, attach,         *)
(*                 detach and clear;                                       *)
(*   SpecDb        an annotation store that is loaded and then queried;    *)
(*   SpecDescribe  a loaded store that is asked to describe itself.        *)
(***************************************************************************)
EXTENDS Integers, Sequences, FiniteSets, TLC

VARIABLES
    nobj,         \* number of objects constructed so far (ids 1..nobj)
    kind,         \* id -> "none" | "seq" | "feature"
    seqlen,       \* id -> len() of a sequence container
    parent,       \* feature id -> id of feature.parent (0 when not a feature)
    attached,     \* feature id -> feature.attached
    map,          \* feature id -> feature.map
    ftype,        \* feature id -> feature.type
    fname,        \* feature id -> feature.name
    cls,          \* feature id -> name of feature.__class__
    basemap,      \* feature id -> Source.basemap (empty for other classes)
    content,      \* sequence id -> its bases: base p of the first sequence
                  \* is p, its complement is -p-1
    annotations,  \* id -> the container's annotations list (sequence of ids)
    last,         \* the last call made on the object graph and its outcome
    ncalls,       \* number of calls made on the object graph so far
    dbfile,       \* the records the parser yields for the file being loaded
    dbload,       \* "none", or the error the constructor of the store raised
    rows,         \* the rows of the store's table, in insertion order
    dbkind,       \* "gff" | "genbank": which store class is populated
    dbargs,       \* the keyword arguments the store is queried with
    dbflags,      \* the flags describe is called with
    dbres         \* the last call made on the store and its outcome

avars == <<nobj, kind, seqlen, parent, attached, map, ftype, fname, cls,
           basemap, content, annotations, last, ncalls>>
dbvars == <<dbfile, dbload, rows, dbkind, dbargs, dbflags, dbres>>
vars == <<nobj, kind, seqlen, parent, attached, map, ftype, fname, cls,
          basemap, content, annotations, last, ncalls, dbfile, dbload, rows,
          dbkind, dbargs, dbflags, dbres>>

----------------------------------------------------------------------------
(* Bounds *)

MaxObj == 6        \* objects (sequences and features) ever constructed
MaxAnnots == 2     \* length of the list passed to attach/detach
SeqLen == 4        \* length of the initial sequence
MaxCalls == 3      \* calls made on the object graph in one behaviour

----------------------------------------------------------------------------
(* Generic helpers *)

Range(s) == {s[i] : i \in 1..Len(s)}

Max2(a, b) == IF a >= b THEN a ELSE b

Min2(a, b) == IF a <= b THEN a ELSE b

SeqsUpTo(S, n) == UNION {[1..k -> S] : k \in 0..n}

RECURSIVE Reverse(_)
Reverse(s) == IF s = <<>> THEN <<>> ELSE Reverse(Tail(s)) \o <<Head(s)>>

\* list.remove(x): drop the first occurrence of x
RECURSIVE ListRemove(_, _)
ListRemove(s, x) ==
    IF s = <<>> THEN <<>>
    ELSE IF Head(s) = x THEN Tail(s)
    ELSE <<Head(s)>> \o ListRemove(Tail(s), x)

----------------------------------------------------------------------------
(* Coordinate maps: cogent3.core.location (Span, LostSpan, Map)            *)

Span(start, end, reverse) ==
    [start |-> start, end |-> end, lost |-> FALSE, reverse |-> reverse]

LostSpan(length) ==
    [start |-> 0, end |-> length, lost |-> TRUE, reverse |-> FALSE]

SpanLength(s) == s.end - s.start

RECURSIVE SumLengths(_)
SumLengths(spans) ==
    IF spans = <<>> THEN 0
    ELSE SpanLength(Head(spans)) + SumLengths(Tail(spans))

\* Map.offsets: position in the map at which each span begins
Offsets(spans) == [i \in 1..Len(spans) |-> SumLengths(SubSeq(spans, 1, i - 1))]

MakeMap(spans, parent_length) ==
    [spans |-> spans, parent_length |-> parent_length]

\* Map(locations=..., parent_length=...) for locations inside the parent
MapFromLocations(locations, parent_length) ==
    MakeMap([i \in 1..Len(locations) |->
                Span(Min2(locations[i][1], locations[i][2]),
                     Max2(locations[i][1], locations[i][2]),
                     locations[i][1] > locations[i][2])],
            parent_length)

MapLength(m) == SumLengths(m.spans)

NonLost(m) == {i \in 1..Len(m.spans) : ~m.spans[i].lost}

MapUseful(m) == NonLost(m) # {}

MapComplete(m) == NonLost(m) = 1..Len(m.spans)

\* Map.start / Map.end: extent of the non-lost spans (defined when useful)
MapStart(m) ==
    CHOOSE x \in {m.spans[i].start : i \in NonLost(m)} :
        \A i \in NonLost(m) : x <= m.spans[i].start

MapEnd(m) ==
    CHOOSE x \in {m.spans[i].end : i \in NonLost(m)} :
        \A i \in NonLost(m) : x >= m.spans[i].end

\* Span.__getitem__(slice(a, b)) with 0 <= a <= b <= length
SpanSlice(s, a, b) ==
    IF s.lost THEN LostSpan(b - a)
    ELSE IF s.reverse THEN Span(s.end - b, s.end - a, TRUE)
    ELSE Span(s.start + a, s.start + b, FALSE)

SpanReversed(s) == IF s.lost THEN s ELSE Span(s.start, s.end, ~s.reverse)

\* the mirror of a span that keeps the strand of the span
SpanReversedRelativeToSameStrand(s, length) ==
    IF s.lost THEN s ELSE Span(length - s.end, length - s.start, s.reverse)

\* the mirror of a span that comes out on the reverse strand whatever the
\* strand of the span was
SpanReversedRelativeToAlwaysReverse(s, length) ==
    IF s.lost THEN s ELSE Span(length - s.end, length - s.start, TRUE)

\* Span.reversed_relative_to(length)
SpanReversedRelativeTo(s, length) ==
    IF s.lost THEN s ELSE Span(length - s.end, length - s.start, ~s.reverse)

\* Span.remap_with(map): the part of map covered by span s
RemapWith(s, m) ==
    IF s.lost THEN <<s>>
    ELSE
    LET offsets == Offsets(m.spans)
        n == Len(m.spans)
        map_length == offsets[n] + SpanLength(m.spans[n])
        zlo == Max2(0, s.start)
        zhi == Min2(map_length, s.end)
        first == Cardinality({i \in 1..n : offsets[i] <= zlo})
        last_ == Max2(first - 1, Cardinality({i \in 1..n : offsets[i] < zhi}))
        result == SubSeq(m.spans, first, last_)
        end_trim == offsets[last_] + SpanLength(m.spans[last_]) - zhi
        start_trim == zlo - offsets[first]
        k == Len(result)
        r1 == IF k > 0 /\ end_trim > 0
              THEN [result EXCEPT ![k] =
                       SpanSlice(@, 0, SpanLength(@) - end_trim)]
              ELSE result
        r2 == IF k > 0 /\ start_trim > 0
              THEN [r1 EXCEPT ![1] =
                       SpanSlice(@, Min2(start_trim, SpanLength(@)),
                                 SpanLength(@))]
              ELSE r1
        r3 == IF s.start < 0 THEN <<LostSpan(0 - s.start)>> \o r2 ELSE r2
        r4 == IF s.end > map_length
              THEN r3 \o <<LostSpan(s.end - map_length)>> ELSE r3
    IN  IF s.reverse
        THEN Reverse([i \in 1..Len(r4) |-> SpanReversed(r4[i])])
        ELSE r4

RECURSIVE RemapAll(_, _)
RemapAll(spans, m) ==
    IF spans = <<>> THEN <<>>
    ELSE RemapWith(Head(spans), m) \o RemapAll(Tail(spans), m)

\* Map.__getitem__(slice): m[slicemap], the composition of the two maps
MapGetItem(m, slicemap) ==
    MakeMap(RemapAll(slicemap.spans, m), m.parent_length)

\* Map.nongap(): where the non-lost spans lie in the map's own coordinates
Nongap(m) ==
    LET offsets == Offsets(m.spans)
        all == [i \in 1..Len(m.spans) |->
                   [start |-> offsets[i],
                    end |-> offsets[i] + SpanLength(m.spans[i]),
                    lost |-> m.spans[i].lost, reverse |-> FALSE]]
    IN  MakeMap(SelectSeq(all, LAMBDA s : ~s.lost), MapLength(m))

\* Map.without_gaps(): the non-lost spans, in order, on the same parent
WithoutGaps(m) ==
    MakeMap(SelectSeq(m.spans, LAMBDA s : ~s.lost), m.parent_length)

\* nucleic_reversed() emitting the mirrored spans last span first
NucleicReversedLastFirst(m) ==
    MakeMap([i \in 1..Len(m.spans) |->
                SpanReversedRelativeTo(m.spans[Len(m.spans) + 1 - i],
                                       m.parent_length)],
            m.parent_length)

\* Map.nucleic_reversed()
NucleicReversed(m) ==
    MakeMap([i \in 1..Len(m.spans) |->
                SpanReversedRelativeTo(m.spans[i], m.parent_length)],
            m.parent_length)

\* Map.inverse(): the entries (lo, hi, start, end) of the non-lost spans
TempEntries(m) ==
    LET offsets == Offsets(m.spans)
        entry(i) ==
            LET sp == m.spans[i]
                posn == offsets[i]
            IN  IF sp.reverse
                THEN <<sp.start, sp.end, posn + SpanLength(sp), posn>>
                ELSE <<sp.start, sp.end, posn, posn + SpanLength(sp)>>
        RECURSIVE collect(_)
        collect(i) ==
            IF i > Len(m.spans) THEN <<>>
            ELSE IF m.spans[i].lost THEN collect(i + 1)
            ELSE <<entry(i)>> \o collect(i + 1)
    IN  collect(1)

\* tuple order of Python on 4-tuples of integers
TupleLeq(x, y) ==
    \/ x = y
    \/ \E k \in 1..4 : x[k] < y[k] /\ \A j \in 1..(k - 1) : x[j] = y[j]

\* temp.sort()
RECURSIVE SortEntries(_)
SortEntries(s) ==
    IF s = <<>> THEN <<>>
    ELSE LET i == CHOOSE i \in 1..Len(s) :
                      \A j \in 1..Len(s) : TupleLeq(s[i], s[j])
             rest == [j \in 1..(Len(s) - 1) |-> IF j < i THEN s[j] ELSE s[j + 1]]
         IN  <<s[i]>> \o SortEntries(rest)

\* the loop of Map._inverse over the sorted entries; err is set on overlap
RECURSIVE InverseLoop(_, _, _)
InverseLoop(temp, last_hi, acc) ==
    IF temp = <<>> THEN [spans |-> acc, last_hi |-> last_hi, err |-> "none"]
    ELSE LET e == Head(temp)
             lo == e[1]
             hi == e[2]
         IN  IF lo < last_hi
             THEN [spans |-> acc, last_hi |-> last_hi, err |-> "ValueError"]
             ELSE InverseLoop(Tail(temp), hi,
                     (IF lo > last_hi THEN acc \o <<LostSpan(lo - last_hi)>>
                      ELSE acc)
                     \o <<Span(Min2(e[3], e[4]), Max2(e[3], e[4]), e[3] > e[4])>>)

\* Map.inverse(): [map |-> ..., err |-> "none" | "ValueError"]
MapInverse(m) ==
    LET r == InverseLoop(SortEntries(TempEntries(m)), 0, <<>>)
        spans == IF m.parent_length > r.last_hi
                 THEN r.spans \o <<LostSpan(m.parent_length - r.last_hi)>>
                 ELSE r.spans
    IN  [map |-> MakeMap(spans, MapLength(m)), err |-> r.err]

----------------------------------------------------------------------------
(* The object graph: sequences and features                               *)

Ids == 1..MaxObj

Objects == 1..nobj

Features == {o \in Objects : kind[o] = "feature"}

\* len(container): a sequence's length, or _Feature.__len__ = len(self.map)
ObjLen(c) == IF kind[c] = "seq" THEN seqlen[c] ELSE MapLength(map[c])

FeatureTypes == {"CDS"}

FeatureNames == {"fred"}

\* the span lists a caller may hand to add_feature on a parent of length L
Locations(L) == {<<<<0, 2>>>>, <<<<L - 2, L>>>>}

\* the slice bounds a caller may use on a container
SliceBounds(L) == {0, 2, L}

InRange(locations, L) ==
    \A i \in 1..Len(locations) :
        /\ 0 <= locations[i][1]
        /\ locations[i][1] < locations[i][2]
        /\ locations[i][2] <= L

NoCall == [op |-> "init", err |-> "none"]

\* the record of a call: which operation ran and the error it raised
Called(op, err) == [op |-> op, err |-> err]

NoArgs == [seq_name |-> <<>>, bio_type |-> <<>>, identifier |-> <<>>,
           start |-> <<>>, end |-> <<>>, strand |-> <<>>]

NoFlags == [seq_name |-> FALSE, bio_type |-> FALSE, identifier |-> FALSE]

NoRes == [op |-> "init", err |-> "none", rows |-> <<>>, recs |-> <<>>]

InitObjects ==
    /\ nobj = 1
    /\ kind = [o \in Ids |-> IF o = 1 THEN "seq" ELSE "none"]
    /\ seqlen = [o \in Ids |-> IF o = 1 THEN SeqLen ELSE 0]
    /\ parent = [o \in Ids |-> 0]
    /\ attached = [o \in Ids |-> FALSE]
    /\ map = [o \in Ids |-> MakeMap(<<>>, 0)]
    /\ ftype = [o \in Ids |-> ""]
    /\ fname = [o \in Ids |-> ""]
    /\ cls = [o \in Ids |-> ""]
    /\ basemap = [o \in Ids |-> MakeMap(<<>>, 0)]
    /\ content = [o \in Ids |->
                      IF o = 1 THEN [i \in 1..SeqLen |-> i - 1] ELSE <<>>]
    /\ annotations = [o \in Ids |-> <<>>]
    /\ last = NoCall
    /\ ncalls = 0

Init ==
    /\ InitObjects
    /\ rows = <<>>
    /\ dbkind = "gff"
    /\ dbfile = <<>>
    /\ dbload = "none"
    /\ dbargs = NoArgs
    /\ dbflags = NoFlags
    /\ dbres = NoRes

\* attach_annotations without its "already attached" check
AttachAllowedParentOnly(c, annots) ==
    \A i \in 1..Len(annots) : parent[annots[i]] = c

\* the checks of attach_annotations: every annot is ours and not attached
AttachAllowed(c, annots) ==
    \A i \in 1..Len(annots) :
        parent[annots[i]] = c /\ ~attached[annots[i]]

\* _Annotatable.attach_annotations(annots)
AttachAnnotations(c, annots) ==
    /\ c \in Objects
    /\ ncalls < MaxCalls
    /\ ncalls' = ncalls + 1
    /\ Len(annots) <= MaxAnnots
    /\ Range(annots) \subseteq Features
    /\ IF AttachAllowed(c, annots)
       THEN /\ annotations' = [annotations EXCEPT ![c] = @ \o annots]
            /\ attached' = [o \in Ids |->
                               IF o \in Range(annots) THEN TRUE ELSE attached[o]]
            /\ last' = Called("attach_annotations", "none")
       ELSE /\ UNCHANGED <<annotations, attached>>
            /\ last' = Called("attach_annotations", "ValueError")
    /\ UNCHANGED <<nobj, kind, seqlen, parent, map, ftype, fname, cls, basemap,
                   content>>
    /\ UNCHANGED dbvars

\* detach_annotations checking the parent of the first annot only
DetachAllowedFirstOnly(c, annots) ==
    annots = <<>> \/ parent[annots[1]] = c

\* the first loop of detach_annotations: every annot lives here
DetachAllowed(c, annots) ==
    \A i \in 1..Len(annots) : parent[annots[i]] = c

\* the second loop of detach_annotations, from annots[i] on; list.remove
\* raises ValueError when the feature is not in the list
RECURSIVE DetachLoop(_, _, _, _)
DetachLoop(annots, i, anns, att) ==
    IF i > Len(annots) THEN [anns |-> anns, att |-> att, err |-> "none"]
    ELSE LET annot == annots[i]
         IN  IF att[annot]
             THEN IF annot \in Range(anns)
                  THEN DetachLoop(annots, i + 1, ListRemove(anns, annot),
                                  [att EXCEPT ![annot] = FALSE])
                  ELSE [anns |-> anns, att |-> att, err |-> "ValueError"]
             ELSE DetachLoop(annots, i + 1, anns, att)

\* _Annotatable.detach_annotations(annots)
DetachAnnotations(c, annots) ==
    /\ c \in Objects
    /\ ncalls < MaxCalls
    /\ ncalls' = ncalls + 1
    /\ Len(annots) <= MaxAnnots
    /\ Range(annots) \subseteq Features
    /\ IF DetachAllowed(c, annots)
       THEN LET r == DetachLoop(annots, 1, annotations[c], attached)
            IN  /\ annotations' = [annotations EXCEPT ![c] = r.anns]
                /\ attached' = r.att
                /\ last' = Called("detach_annotations", r.err)
       ELSE /\ UNCHANGED <<annotations, attached>>
            /\ last' = Called("detach_annotations", "ValueError")
    /\ UNCHANGED <<nobj, kind, seqlen, parent, map, ftype, fname, cls, basemap,
                   content>>
    /\ UNCHANGED dbvars

\* _Feature.attach(): self.parent.attach_annotations([self])
FeatureAttach(f) ==
    /\ f \in Features
    /\ AttachAnnotations(parent[f], <<f>>)

\* _Feature.detach(): self.parent.detach_annotations([self])
FeatureDetach(f) ==
    /\ f \in Features
    /\ DetachAnnotations(parent[f], <<f>>)

\* _Annotatable.clear_annotations()
ClearAnnotations(c) ==
    /\ c \in Objects
    /\ ncalls < MaxCalls
    /\ ncalls' = ncalls + 1
    /\ annotations' = [annotations EXCEPT ![c] = <<>>]
    /\ last' = Called("clear_annotations", "none")
    /\ UNCHANGED <<nobj, kind, seqlen, parent, attached, map, ftype, fname,
                   cls, basemap, content>>
    /\ UNCHANGED dbvars

\* _Annotatable.add_annotation(Feature, type, name, spans): the Feature
\* factory builds an AnnotatableFeature on self, which is then attached
AddAnnotation(c, t, n, locations) ==
    /\ c \in Objects
    /\ ncalls < MaxCalls
    /\ ncalls' = ncalls + 1
    /\ nobj < MaxObj
    /\ InRange(locations, ObjLen(c))
    /\ LET f == nobj + 1
       IN  /\ nobj' = f
           /\ kind' = [kind EXCEPT ![f] = "feature"]
           /\ parent' = [parent EXCEPT ![f] = c]
           /\ map' = [map EXCEPT ![f] = MapFromLocations(locations, ObjLen(c))]
           /\ ftype' = [ftype EXCEPT ![f] = t]
           /\ fname' = [fname EXCEPT ![f] = n]
           /\ cls' = [cls EXCEPT ![f] = "AnnotatableFeature"]
           /\ attached' = [attached EXCEPT ![f] = TRUE]
           /\ annotations' = [annotations EXCEPT ![c] = @ \o <<f>>]
           /\ last' = Called("add_annotation", "none")
    /\ UNCHANGED <<seqlen, basemap, content>>
    /\ UNCHANGED dbvars

\* _Annotatable.add_annotation(klass, ...) for the classes that do not go
\* through the Feature factory.  Variable(type, name, xxy_list) builds a
\* _Variable; Source(map, accession, basemap) is built as given, its type is
\* the class attribute "source" and its name ends with the accession.
\* The factory makes one span from the least to the greatest x of xxy_list,
\* with end shifted down by start when start is not 0
AddAnnotationOf(c, klass, t, n, locations) ==
    /\ c \in Objects
    /\ ncalls < MaxCalls
    /\ ncalls' = ncalls + 1
    /\ nobj < MaxObj
    /\ InRange(locations, ObjLen(c))
    /\ LET f == nobj + 1
           xs == UNION {{locations[i][1], locations[i][2]} :
                           i \in 1..Len(locations)}
           start == CHOOSE x \in xs : \A y \in xs : x <= y
           end == CHOOSE x \in xs : \A y \in xs : x >= y
           m == IF klass = "_Variable"
                THEN MapFromLocations(
                         <<<<start, IF start # 0 THEN end - start ELSE end>>>>,
                         ObjLen(c))
                ELSE MapFromLocations(locations, ObjLen(c))
       IN  /\ nobj' = f
           /\ kind' = [kind EXCEPT ![f] = "feature"]
           /\ parent' = [parent EXCEPT ![f] = c]
           /\ map' = [map EXCEPT ![f] = m]
           /\ basemap' = [basemap EXCEPT ![f] =
                  IF klass = "Source" THEN m ELSE @]
           /\ ftype' = [ftype EXCEPT ![f] =
                  IF klass = "Source" THEN "source" ELSE t]
           /\ fname' = [fname EXCEPT ![f] = n]
           /\ cls' = [cls EXCEPT ![f] = klass]
           /\ attached' = [attached EXCEPT ![f] = TRUE]
           /\ annotations' = [annotations EXCEPT ![c] = @ \o <<f>>]
           /\ last' = Called("add_annotation", "none")
    /\ UNCHANGED <<seqlen, content>>
    /\ UNCHANGED dbvars

\* c.add_annotation(klass, map, ...) with a Map that the caller built over
\* parent_length positions.  Feature and _Feature.__init__ assert that
\* map.parent_length is len(c); Source.__init__ takes the map as it is
AddAnnotationWithMap(c, klass, t, n, locations, parent_length) ==
    /\ c \in Objects
    /\ ncalls < MaxCalls
    /\ ncalls' = ncalls + 1
    /\ nobj < MaxObj
    /\ InRange(locations, parent_length)
    /\ IF klass # "Source" /\ parent_length # ObjLen(c)
       THEN /\ last' = Called("add_annotation", "AssertionError")
            /\ UNCHANGED <<nobj, kind, parent, map, basemap, ftype, fname,
                           cls, attached, annotations>>
       ELSE LET f == nobj + 1
                m == MapFromLocations(locations, parent_length)
            IN  /\ nobj' = f
                /\ kind' = [kind EXCEPT ![f] = "feature"]
                /\ parent' = [parent EXCEPT ![f] = c]
                /\ map' = [map EXCEPT ![f] = m]
                /\ basemap' = [basemap EXCEPT ![f] =
                       IF klass = "Source" THEN m ELSE @]
                /\ ftype' = [ftype EXCEPT ![f] =
                       IF klass = "Source" THEN "source" ELSE t]
                /\ fname' = [fname EXCEPT ![f] = n]
                /\ cls' = [cls EXCEPT ![f] = klass]
                /\ attached' = [attached EXCEPT ![f] = TRUE]
                /\ annotations' = [annotations EXCEPT ![c] = @ \o <<f>>]
                /\ last' = Called("add_annotation", "none")
    /\ UNCHANGED <<seqlen, content>>
    /\ UNCHANGED dbvars

\* _sliced_annotations keeping whatever overlaps the slice by its extent
SurvivesByExtent(annot, slicemap, newmap) ==
    /\ MapUseful(map[annot])
    /\ MapStart(map[annot]) < MapEnd(slicemap)
    /\ MapEnd(map[annot]) > MapStart(slicemap)

\* the test of _sliced_annotations on one annotation: it has a useful map
\* that overlaps the slice, and its remapped map is still useful
Survives(annot, slicemap, newmap) ==
    /\ MapUseful(map[annot])
    /\ MapStart(map[annot]) < MapEnd(slicemap)
    /\ MapEnd(map[annot]) > MapStart(slicemap)
    /\ MapUseful(MapGetItem(newmap, map[annot]))

\* _Annotatable._sliced_annotations(new, slice): the annotations of c that
\* are remapped onto the new container, in list order
RECURSIVE SlicedFrom(_, _, _)
SlicedFrom(anns, slicemap, newmap) ==
    IF anns = <<>> THEN <<>>
    ELSE (IF Survives(Head(anns), slicemap, newmap) THEN <<Head(anns)>> ELSE <<>>)
         \o SlicedFrom(Tail(anns), slicemap, newmap)

SlicedAnnotations(c, slicemap) ==
    IF annotations[c] = <<>> \/ ~MapUseful(slicemap) THEN <<>>
    ELSE SlicedFrom(annotations[c], slicemap, MapInverse(slicemap).map)

\* AnnotatableFeature.remapped_to: the annotations list given to the copy
RemappedAnnotations(annot) ==
    SelectSeq(annotations[annot], LAMBDA sub : MapUseful(map[sub]))

\* Sequence._mapped taking the segment under the first span alone
MappedContentFirstSpan(text, m) ==
    IF m.spans = <<>> THEN <<>>
    ELSE SubSeq(text, Head(m.spans).start + 1, Head(m.spans).end)

\* the bases Sequence._mapped joins for a map without gaps: the segment
\* under each span, reverse complemented when the span is reversed
RECURSIVE MappedContent(_, _)
MappedContent(text, m) ==
    IF m.spans = <<>> THEN <<>>
    ELSE LET sp == Head(m.spans)
             seg == SubSeq(text, sp.start + 1, sp.end)
         IN  (IF sp.reverse
              THEN Reverse([i \in 1..Len(seg) |-> 0 - seg[i] - 1])
              ELSE seg)
             \o MappedContent(text, MakeMap(Tail(m.spans), m.parent_length))

\* the exception _mapped raises on a sequence: a sequence cannot be built
\* over a map that has gaps
SequenceMappedError(slicemap) ==
    IF MapComplete(slicemap) THEN "none" ELSE "ValueError"

\* annot.remapped_to(new, newmap): the map and the basemap of the copy.
\* A Source throws the gaps of its new map away
Remapped(s, newmap) ==
    LET nm == MapGetItem(newmap, map[s])
    IN  IF cls[s] = "Source"
        THEN [map |-> MapGetItem(nm, Nongap(nm)),
              basemap |-> MapGetItem(basemap[s], Nongap(nm))]
        ELSE [map |-> nm, basemap |-> basemap[s]]

\* _Annotatable.__getitem__(index) once index is the map slicemap: build the
\* sliced container with _mapped, remap the surviving annotations onto it
\* and attach them.  call names the call that is recorded; the new feature
\* that without_lost_spans builds in place of _mapped takes its type and
\* name from the original, the rest of the call is the same.  Of the feature
\* classes only AnnotatableFeature has a _mapped that works: the constructor
\* call of _Feature._mapped lacks the xxy_list of a _Variable and does not
\* fit Source.__init__
SliceContainer(c, slicemap, call) ==
    \E sm \in {slicemap} :
    \E err \in {IF kind[c] = "seq" THEN SequenceMappedError(sm)
                ELSE IF cls[c] = "AnnotatableFeature" THEN "none"
                ELSE IF cls[c] = "Source" THEN "TypeError"
                ELSE "AttributeError"} :
    IF err # "none"
    THEN /\ last' = call @@ [err |-> err, src |-> c, new |-> 0, map |-> sm]
         /\ UNCHANGED <<nobj, kind, seqlen, parent, attached, map, ftype,
                        fname, cls, basemap, content, annotations>>
    ELSE
    \E sliced \in {SlicedAnnotations(c, sm)} :
    \E copies \in {[i \in 1..Len(sliced) |->
                       Remapped(sliced[i], MapInverse(sm).map)]} :
    LET new == nobj + 1
        created == (new + 1)..(new + Len(sliced))
        src(o) == sliced[o - new]
    IN  /\ new + Len(sliced) <= MaxObj
        /\ nobj' = new + Len(sliced)
        /\ kind' = [o \in Ids |->
               IF o = new THEN kind[c]
               ELSE IF o \in created THEN "feature" ELSE kind[o]]
        /\ seqlen' = [seqlen EXCEPT ![new] =
               IF kind[c] = "seq" THEN MapLength(sm) ELSE 0]
        /\ parent' = [o \in Ids |->
               IF o = new THEN (IF kind[c] = "seq" THEN 0 ELSE parent[c])
               ELSE IF o \in created THEN new ELSE parent[o]]
        /\ map' = [o \in Ids |->
               IF o = new
               THEN (IF kind[c] = "seq" THEN map[o]
                     ELSE MapGetItem(map[c], sm))
               ELSE IF o \in created THEN copies[o - new].map
               ELSE map[o]]
        /\ basemap' = [o \in Ids |->
               IF o \in created THEN copies[o - new].basemap
               ELSE basemap[o]]
        /\ content' = [content EXCEPT ![new] =
               IF kind[c] = "seq" THEN MappedContent(content[c], sm) ELSE <<>>]
        /\ ftype' = [o \in Ids |->
               IF o = new
               THEN (IF kind[c] = "seq" THEN ""
                     ELSE IF call.op = "without_lost_spans" THEN ftype[c]
                     ELSE "slice")
               ELSE IF o \in created THEN ftype[src(o)] ELSE ftype[o]]
        /\ fname' = [o \in Ids |->
               IF o = new /\ call.op = "without_lost_spans" THEN fname[c]
               ELSE IF o \in created THEN fname[src(o)] ELSE fname[o]]
        /\ cls' = [o \in Ids |->
               IF o = new THEN cls[c]
               ELSE IF o \in created THEN cls[src(o)] ELSE cls[o]]
        /\ attached' = [o \in Ids |->
               IF o \in created THEN TRUE ELSE attached[o]]
        /\ annotations' = [o \in Ids |->
               IF o = new THEN [i \in 1..Len(sliced) |-> new + i]
               ELSE IF o \in created /\ cls[src(o)] = "AnnotatableFeature"
               THEN RemappedAnnotations(src(o))
               ELSE annotations[o]]
        /\ last' = call @@ [err |-> "none", src |-> c, new |-> new,
                            map |-> sm]

\* container[a:b]
GetItem(c, a, b) ==
    /\ c \in Objects
    /\ ncalls < MaxCalls
    /\ ncalls' = ncalls + 1
    /\ 0 <= a /\ a < b /\ b <= ObjLen(c)
    /\ SliceContainer(c, MapFromLocations(<<<<a, b>>>>, ObjLen(c)),
                      [op |-> "getitem"])
    /\ UNCHANGED dbvars

\* whether _Feature.__init__ ran on the object and gave it base and base_map
HasBase(o) == kind[o] = "feature" /\ cls[o] # "Source"

\* feature.base: the container at the root of the chain of parents
RECURSIVE Base(_)
Base(f) == IF HasBase(parent[f]) THEN Base(parent[f]) ELSE parent[f]

\* feature.base_map: feature.map carried through the maps of its ancestors
RECURSIVE BaseMap(_)
BaseMap(f) ==
    IF HasBase(parent[f]) THEN MapGetItem(BaseMap(parent[f]), map[f])
    ELSE map[f]

\* get_slice dropping the gaps whatever the caller asked for
GetSliceMapAlwaysDropsGaps(f, complete) == WithoutGaps(BaseMap(f))

\* the map _Feature.get_slice(complete) slices the base with
GetSliceMap(f, complete) ==
    IF ~(complete \/ MapComplete(BaseMap(f))) THEN WithoutGaps(BaseMap(f))
    ELSE BaseMap(f)

\* _Feature.get_slice(complete): self.base[map]; a Source has no base_map
GetSlice(f, complete) ==
    /\ f \in Features
    /\ ncalls < MaxCalls
    /\ ncalls' = ncalls + 1
    /\ LET call == [op |-> "get_slice", feature |-> f, complete |-> complete]
       IN  IF HasBase(f)
           THEN SliceContainer(Base(f), GetSliceMap(f, complete), call)
           ELSE /\ last' = call @@ [err |-> "AttributeError"]
                /\ UNCHANGED <<nobj, kind, seqlen, parent, attached, map,
                               ftype, fname, cls, basemap, content, annotations>>
    /\ UNCHANGED dbvars

\* without_lost_spans(): _Feature builds a new feature over self.map[keep]
\* carrying the sliced sub-annotations; Source returns self; _Variable has no
\* implementation for a map with lost spans
WithoutLostSpans(f) ==
    /\ f \in Features
    /\ ncalls < MaxCalls
    /\ ncalls' = ncalls + 1
    /\ LET call == [op |-> "without_lost_spans", feature |-> f]
       IN  IF cls[f] = "Source" \/ MapComplete(map[f])
           THEN /\ last' = call @@ [err |-> "none", src |-> f, new |-> f,
                                    map |-> map[f]]
                /\ UNCHANGED <<nobj, kind, seqlen, parent, attached, map,
                               ftype, fname, cls, basemap, content, annotations>>
           ELSE IF cls[f] = "_Variable"
           THEN /\ last' = call @@ [err |-> "NotImplementedError", src |-> f,
                                    new |-> 0, map |-> map[f]]
                /\ UNCHANGED <<nobj, kind, seqlen, parent, attached, map,
                               ftype, fname, cls, basemap, content, annotations>>
           ELSE SliceContainer(f, Nongap(map[f]), call)
    /\ UNCHANGED dbvars

\* _Feature.copy_annotations_to(annotatable): after the assertion on the
\* lengths, self.__class__(**serialisable) with serialisable["parent"] set
\* to the target, then the target attaches the copy.  The _serialisable of a
\* Source holds seq, map, accession and basemap, and Source.__init__ takes no
\* parent
CopyAnnotationsTo(f, target) ==
    /\ f \in Features
    /\ target \in Objects
    /\ ncalls < MaxCalls
    /\ ncalls' = ncalls + 1
    /\ LET call == [op |-> "copy_annotations_to", feature |-> f,
                    target |-> target]
           err == IF ObjLen(target) # ObjLen(parent[f]) THEN "AssertionError"
                  ELSE IF cls[f] = "Source" THEN "TypeError"
                  ELSE "none"
           new == nobj + 1
       IN  IF err # "none"
           THEN /\ last' = call @@ [err |-> err, new |-> 0]
                /\ UNCHANGED <<nobj, kind, seqlen, parent, attached, map,
                               ftype, fname, cls, basemap, content, annotations>>
           ELSE /\ nobj < MaxObj
                /\ nobj' = new
                /\ kind' = [kind EXCEPT ![new] = "feature"]
                /\ parent' = [parent EXCEPT ![new] = target]
                /\ map' = [map EXCEPT ![new] = map[f]]
                /\ ftype' = [ftype EXCEPT ![new] = ftype[f]]
                /\ fname' = [fname EXCEPT ![new] = fname[f]]
                /\ cls' = [cls EXCEPT ![new] = cls[f]]
                /\ attached' = [attached EXCEPT ![new] = TRUE]
                /\ annotations' = [annotations EXCEPT ![target] = @ \o <<new>>]
                /\ last' = call @@ [err |-> "none", new |-> new]
                /\ UNCHANGED <<seqlen, basemap, content>>
    /\ UNCHANGED dbvars

\* reverse complement of a sequence: a new sequence of the same length on
\* which _annotations_nucleic_reversed_on rebuilds and attaches every
\* annotation with its map passed through nucleic_reversed().  The loop
\* builds annot.__class__(new, new_map, annot), which raises TypeError on a
\* Source, whose __init__ takes (seq, map, accession, basemap)
ReverseComplement(c) ==
    /\ c \in Objects
    /\ ncalls < MaxCalls
    /\ ncalls' = ncalls + 1
    /\ kind[c] = "seq"
    /\ LET err == IF \E i \in 1..Len(annotations[c]) :
                         cls[annotations[c][i]] = "Source"
                  THEN "TypeError" ELSE "none"
           anns == IF err = "none" THEN annotations[c] ELSE <<>>
           new == nobj + 1
           created == (new + 1)..(new + Len(anns))
           src(o) == anns[o - new]
       IN  /\ new + Len(anns) <= MaxObj
           /\ \A i \in 1..Len(anns) : map[anns[i]].parent_length = seqlen[c]
           /\ nobj' = new + Len(anns)
           /\ kind' = [o \in Ids |->
                  IF o = new THEN "seq"
                  ELSE IF o \in created THEN "feature" ELSE kind[o]]
           /\ seqlen' = [seqlen EXCEPT ![new] = seqlen[c]]
           /\ parent' = [o \in Ids |-> IF o \in created THEN new ELSE parent[o]]
           /\ map' = [o \in Ids |->
                  IF o \in created THEN NucleicReversed(map[src(o)]) ELSE map[o]]
           /\ ftype' = [o \in Ids |->
                  IF o \in created THEN ftype[src(o)] ELSE ftype[o]]
           /\ fname' = [o \in Ids |->
                  IF o \in created THEN fname[src(o)] ELSE fname[o]]
           /\ cls' = [o \in Ids |->
                  IF o \in created THEN cls[src(o)] ELSE cls[o]]
           /\ attached' = [o \in Ids |->
                  IF o \in created THEN TRUE ELSE attached[o]]
           /\ annotations' = [annotations EXCEPT
                  ![new] = [i \in 1..Len(anns) |-> new + i]]
           /\ content' = [content EXCEPT ![new] =
                  Reverse([i \in 1..Len(content[c]) |-> 0 - content[c][i] - 1])]
           /\ last' = [op |-> "rc", err |-> err, src |-> c, new |-> new]
    /\ UNCHANGED basemap
    /\ UNCHANGED dbvars

Next ==
    \/ \E c \in Ids, t \in FeatureTypes, n \in FeatureNames,
          locations \in Locations(SeqLen) : AddAnnotation(c, t, n, locations)
    \/ \E c \in Objects, annots \in SeqsUpTo(Features, MaxAnnots) :
          AttachAnnotations(c, annots)
    \/ \E c \in Objects, annots \in SeqsUpTo(Features, MaxAnnots) :
          DetachAnnotations(c, annots)
    \/ \E f \in Ids : FeatureAttach(f)
    \/ \E f \in Ids : FeatureDetach(f)
    \/ \E c \in Ids : ClearAnnotations(c)
    \/ \E c \in Ids, a \in SliceBounds(SeqLen), b \in SliceBounds(SeqLen) :
          GetItem(c, a, b)
    \/ \E c \in Ids : ReverseComplement(c)

Spec == Init /\ [][Next]_vars

\* the feature operations.  The span lists and xxy lists handed to
\* add_annotation are one span, or three spans of which a slice at
\* SliceBounds keeps two and the slice [2:SeqLen-1] none
NextFeature ==
    LET locs == {<<<<1, SeqLen>>>>, <<<<0, 1>>, <<1, 2>>, <<SeqLen - 1, SeqLen>>>>}
    IN
    \/ \E c \in Ids, t \in FeatureTypes, n \in FeatureNames, locations \in locs :
          AddAnnotation(c, t, n, locations)
    \/ \E c \in Ids, klass \in {"_Variable", "Source"}, t \in FeatureTypes,
          n \in FeatureNames, locations \in locs :
          AddAnnotationOf(c, klass, t, n, locations)
    \/ \E c \in Ids, klass \in {"AnnotatableFeature", "Source"},
          t \in FeatureTypes, n \in FeatureNames,
          parent_length \in {SeqLen, SeqLen + 1} :
          AddAnnotationWithMap(c, klass, t, n, <<<<1, SeqLen>>>>, parent_length)
    \/ \E c \in Ids, a \in SliceBounds(SeqLen), b \in {2, SeqLen - 1, SeqLen} :
          GetItem(c, a, b)
    \/ \E c \in Ids : ReverseComplement(c)
    \/ \E f \in Ids, complete \in BOOLEAN : GetSlice(f, complete)
    \/ \E f \in Ids : WithoutLostSpans(f)
    \/ \E f \in Ids, target \in Ids : CopyAnnotationsTo(f, target)

SpecFeature == Init /\ [][NextFeature]_vars

----------------------------------------------------------------------------
(* The annotation stores: cogent3.core.annotation_db                      *)
(* Text that is searched, concatenated or parsed is a sequence of          *)
(* one-character strings.                                                   *)

MaxRows == 3       \* records in the file a store is populated from

\* an optional argument: None, or Some(v)
None == <<>>

Some(v) == <<v>>

Val(x) == x[1]

\* truth value of an optional string argument: None and "" are falsy
Truthy(x) == x # None /\ Val(x) # <<>>

qt == "\""

RECURSIVE Join(_, _)
Join(parts, sep) ==
    IF parts = <<>> THEN <<>>
    ELSE IF Len(parts) = 1 THEN parts[1]
    ELSE parts[1] \o sep \o Join(Tail(parts), sep)

\* json.dumps of a str made of letters, digits and underscores
JsonDumpsStr(str) == <<qt>> \o str \o <<qt>>

\* json.dumps of a dict of str -> str, given as a sequence of <<key, value>>
JsonDumpsDict(d) ==
    <<"{">>
    \o Join([i \in 1..Len(d) |->
                JsonDumpsStr(d[i][1]) \o <<":", " ">> \o JsonDumpsStr(d[i][2])],
            <<",", " ">>)
    \o <<"}">>

\* the JSON string that opens at text[i]
ReadString(text, i) ==
    LET j == CHOOSE j \in (i + 1)..Len(text) :
                 text[j] = qt /\ \A k \in (i + 1)..(j - 1) : text[k] # qt
    IN  [val |-> SubSeq(text, i + 1, j - 1), next |-> j + 1]

RECURSIVE ParsePairs(_, _)
ParsePairs(text, i) ==
    IF text[i] = "}" THEN <<>>
    ELSE LET k == ReadString(text, i)
             v == ReadString(text, k.next + 2)
         IN  <<<<k.val, v.val>>>>
             \o (IF text[v.next] = "," THEN ParsePairs(text, v.next + 2)
                 ELSE <<>>)

\* json.loads of the text of a dict of str -> str
JsonLoadsDict(text) == ParsePairs(text, 2)

\* d[key]
DictGet(d, key) == d[CHOOSE i \in 1..Len(d) : d[i][1] = key][2]

DigitChars == <<"0", "1", "2", "3", "4", "5", "6", "7", "8", "9">>

\* json.dumps / json.loads of an integer 0..9
JsonDumpsInt(n) == DigitChars[n + 1]

JsonLoadsInt(ch) == (CHOOSE k \in 1..10 : DigitChars[k] = ch) - 1

\* json.dumps of a list of (start, end) pairs
JsonDumpsSpans(location) ==
    <<"[">>
    \o Join([i \in 1..Len(location) |->
                <<"[", JsonDumpsInt(location[i][1]), ",", " ",
                  JsonDumpsInt(location[i][2]), "]">>],
            <<",", " ">>)
    \o <<"]">>

RECURSIVE ParseSpans(_, _)
ParseSpans(text, i) ==
    IF text[i] = "]" THEN <<>>
    ELSE <<<<JsonLoadsInt(text[i + 1]), JsonLoadsInt(text[i + 4])>>>>
         \o (IF text[i + 6] = "," THEN ParseSpans(text, i + 8) ELSE <<>>)

\* [tuple(l) for l in json.loads(text)]
JsonLoadsSpans(text) == ParseSpans(text, 2)

UpperLetters == <<"A", "B", "C", "D", "E", "F", "G", "H", "I", "J", "K", "L",
                  "M", "N", "O", "P", "Q", "R", "S", "T", "U", "V", "W", "X",
                  "Y", "Z">>

LowerLetters == <<"a", "b", "c", "d", "e", "f", "g", "h", "i", "j", "k", "l",
                  "m", "n", "o", "p", "q", "r", "s", "t", "u", "v", "w", "x",
                  "y", "z">>

\* SQLite folds the case of ASCII letters when it evaluates LIKE
FoldMap ==
    [ch \in Range(UpperLetters) |->
        LowerLetters[CHOOSE k \in 1..26 : UpperLetters[k] = ch]]

FoldCase(ch) == IF ch \in DOMAIN FoldMap THEN FoldMap[ch] ELSE ch

\* SQLite "text LIKE pattern": % matches any run of characters, _ matches
\* any one character, letters match without regard to case
RECURSIVE Like(_, _)
Like(pattern, text) ==
    IF pattern = <<>> THEN text = <<>>
    ELSE IF Head(pattern) = "%"
    THEN Like(Tail(pattern), text)
         \/ (text # <<>> /\ Like(pattern, Tail(text)))
    ELSE /\ text # <<>>
         /\ (Head(pattern) = "_" \/ FoldCase(Head(pattern)) = FoldCase(Head(text)))
         /\ Like(Tail(pattern), Tail(text))

\* text values used by the records and the queries
CDS == <<"C", "D", "S">>
GENE == <<"g", "e", "n", "e">>
KeyID == <<"I", "D">>
KeyParent == <<"P", "a", "r", "e", "n", "t">>
TagAB == <<"a", "b">>
TagCD == <<"c", "d">>
TagXB == <<"x", "b">>
SeqS1 == <<"s", "1">>
SeqS2 == <<"s", "2">>
Plus == <<"+">>
Minus == <<"-">>
Dot == <<".">>

\* the records gff_parser may yield
GffRecord(seqid, type, start, end, strand, attributes) ==
    [SeqID |-> seqid, Source |-> <<"m", "e">>, Type |-> type, Start |-> start,
     End |-> end, Score |-> Dot, Strand |-> strand, Phase |-> Dot,
     Attributes |-> attributes]

GffRecords ==
    { GffRecord(SeqS1, GENE, 0, 3, Plus, <<<<KeyID, TagAB>>>>),
      GffRecord(SeqS1, CDS, 1, 3, Plus, <<<<KeyID, TagCD>>, <<KeyParent, TagAB>>>>),
      GffRecord(SeqS1, CDS, 1, 2, Minus, <<<<KeyID, TagCD>>, <<KeyParent, TagAB>>>>),
      GffRecord(SeqS2, CDS, 1, 3, Minus, <<<<KeyID, TagXB>>>>) }

\* a record without the Attributes field
GffRecordNoAttributes ==
    [SeqID |-> SeqS1, Source |-> <<"m", "e">>, Type |-> GENE, Start |-> 0,
     End |-> 3, Score |-> Dot, Strand |-> Plus, Phase |-> Dot]

\* the records of a file that is loaded
GffFileRecords == GffRecords \cup {GffRecordNoAttributes}

\* the features MinimalGenbankParser may yield; location holds 1-based
\* (first, last) pairs, locus_tag is None or Some(list of tags)
GenbankFeature(type, location, strand, locus_tag) ==
    [type |-> type, location |-> location, strand |-> strand,
     locus_tag |-> locus_tag]

SourceFeature == GenbankFeature(<<"s", "o", "u", "r", "c", "e">>, <<<<1, 4>>>>, 1, None)

GenbankFeatures ==
    { GenbankFeature(GENE, <<<<1, 3>>>>, 1, Some(<<TagAB>>)),
      GenbankFeature(CDS, <<<<1, 2>>, <<3, 4>>>>, 1, Some(<<TagAB>>)),
      GenbankFeature(CDS, <<<<2, 3>>>>, -1, Some(<<TagXB>>)) }

\* the features of a file that is loaded, after its first (source) feature:
\* one of them has no locus_tag qualifier
GenbankFileFeatures ==
    GenbankFeatures \cup {GenbankFeature(GENE, <<<<2, 4>>>>, 1, None)}

GenbankLocus == SeqS1

\* the keys _ordered_values reads from a record
GffKeys == <<"SeqID", "Source", "Type", "Start", "End", "Score", "Strand",
             "Phase", "Attributes">>

\* _ordered_values(record) with the attributes serialised by json.dumps:
\* the row inserted into table GFF
GffRow(record) ==
    [SeqID |-> record.SeqID, Source |-> record.Source, Type |-> record.Type,
     Start |-> record.Start, End |-> record.End, Score |-> record.Score,
     Strand |-> record.Strand, Phase |-> record.Phase,
     Attributes |-> JsonDumpsDict(record.Attributes)]

\* a load that inserts a record only when no equal record came before it
PopulateGffDistinct(records) ==
    LET firsts == SelectSeq([i \in 1..Len(records) |-> i],
                            LAMBDA i : \A j \in 1..(i - 1) : records[j] # records[i])
    IN  [k \in 1..Len(firsts) |-> GffRow(records[firsts[k]])]

\* GffAnnotationDb._populate_from_file: one row per record, in order
PopulateGff(records) == [i \in 1..Len(records) |-> GffRow(records[i])]

\* GffAnnotationDb(path): values[k] raises KeyError on a record without key
\* k, and the constructor fails; otherwise the table is populated
LoadGff(records) ==
    IF \E i \in 1..Len(records), k \in 1..Len(GffKeys) :
           GffKeys[k] \notin DOMAIN records[i]
    THEN [err |-> "KeyError", rows |-> <<>>]
    ELSE [err |-> "none", rows |-> PopulateGff(records)]

\* _fetch_from_features(feature) preceded by the locus id: the row
\* inserted into table GENBANK
GenbankRow(locus_id, feature) ==
    LET location == [i \in 1..Len(feature.location) |->
                        <<feature.location[i][1] - 1, feature.location[i][2]>>]
    IN  [LocusID |-> locus_id, Type |-> feature.type,
         Spans |-> JsonDumpsSpans(location),
         Locus_Tag |-> Val(feature.locus_tag)[1],
         Start |-> location[1][1],
         End |-> location[Len(location)][2],
         Strand |-> feature.strand]

\* GenbankAnnotationDb._populate_from_file: the first feature is dropped,
\* as is every feature without a locus_tag
RECURSIVE PopulateFeatures(_, _)
PopulateFeatures(locus_id, features) ==
    IF features = <<>> THEN <<>>
    ELSE (IF Head(features).locus_tag = None THEN <<>>
          ELSE <<GenbankRow(locus_id, Head(features))>>)
         \o PopulateFeatures(locus_id, Tail(features))

PopulateGenbank(locus_id, features) == PopulateFeatures(locus_id, Tail(features))

\* GenbankAnnotationDb(path)
LoadGenbank(locus_id, features) ==
    [err |-> "none", rows |-> PopulateGenbank(locus_id, features)]

\* the keyword arguments a caller may pass to db_query / find_records
QSeqNames == {None, Some(SeqS1)}
QBioTypes == {None, Some(CDS)}
QIdentifiers == {None, Some(TagAB), Some(<<"A", "_">>)}
QStarts == {None, Some(1)}
QEnds == {None, Some(0), Some(3)}
QStrands == {None, Some(Plus)}

QueryArgs ==
    [seq_name : QSeqNames, bio_type : QBioTypes, identifier : QIdentifiers,
     start : QStarts, end : QEnds, strand : QStrands]

\* one "column op ?" of the WHERE clause with the value bound to it
Clause(column, op, value) == [column |-> column, op |-> op, value |-> value]

\* _make_sql_query with seq_name counted among the required arguments
NoArgumentsCountingSeqName(args) ==
    ~(Truthy(args.seq_name) \/ Truthy(args.bio_type) \/ Truthy(args.identifier))

\* not any([bio_type, identifier])
NoArguments(args) == ~(Truthy(args.bio_type) \/ Truthy(args.identifier))

\* the seq_name clause never added
SeqNameClausesDropped(store, seq_name) == <<>>

\* if seq_name: "SeqID == ?" (GFF) / "LocusID == ?" (GenBank)
SeqNameClauses(store, seq_name) ==
    IF Truthy(seq_name)
    THEN <<Clause(IF store = "gff" THEN "SeqID" ELSE "LocusID", "==", Val(seq_name))>>
    ELSE <<>>

\* if bio_type: "Type == ?"
BioTypeClauses(bio_type) ==
    IF Truthy(bio_type) THEN <<Clause("Type", "==", Val(bio_type))>> ELSE <<>>

\* if identifier: "Attributes like ?" (GFF) / "Locus_Tag like ?" (GenBank)
\* with the value f"%{identifier}%"
IdentifierClauses(store, identifier) ==
    IF Truthy(identifier)
    THEN <<Clause(IF store = "gff" THEN "Attributes" ELSE "Locus_Tag", "like",
                  <<"%">> \o Val(identifier) \o <<"%">>)>>
    ELSE <<>>

\* the range clauses with the inclusive bound "End <= ?"
RangeClausesInclusiveEnd(start, end) ==
    (IF start # None THEN <<Clause("Start", ">=", Val(start))>> ELSE <<>>)
    \o (IF end # None THEN <<Clause("End", "<=", Val(end))>> ELSE <<>>)

\* "Start >= ? AND End < ?" / "Start >= ?" / "End < ?", chosen by
\* "is not None"
RangeClauses(start, end) ==
    IF start # None /\ end # None
    THEN <<Clause("Start", ">=", Val(start)), Clause("End", "<", Val(end))>>
    ELSE IF start # None THEN <<Clause("Start", ">=", Val(start))>>
    ELSE IF end # None THEN <<Clause("End", "<", Val(end))>>
    ELSE <<>>

\* _make_sql_query: ValueError, or the clauses joined by AND (strand is
\* accepted and not used)
MakeSqlQuery(store, args) ==
    IF NoArguments(args) THEN [err |-> "ValueError", clauses |-> <<>>]
    ELSE [err |-> "none",
          clauses |-> SeqNameClauses(store, args.seq_name)
                      \o BioTypeClauses(args.bio_type)
                      \o IdentifierClauses(store, args.identifier)
                      \o RangeClauses(args.start, args.end)]

\* SQLite's evaluation of one clause on a row
RowMatches(row, cl) ==
    CASE cl.op = "==" -> row[cl.column] = cl.value
      [] cl.op = "like" -> Like(cl.value, row[cl.column])
      [] cl.op = ">=" -> row[cl.column] >= cl.value
      [] cl.op = "<" -> row[cl.column] < cl.value
      [] cl.op = "<=" -> row[cl.column] <= cl.value

\* SELECT * FROM table WHERE clauses: the ids of the rows, in table order
Select(table, clauses) ==
    SelectSeq([i \in 1..Len(table) |-> i],
              LAMBDA i : \A k \in 1..Len(clauses) : RowMatches(table[i], clauses[k]))

\* db_query: [err, rows]
DbQuery(store, table, args) ==
    LET q == MakeSqlQuery(store, args)
    IN  IF q.err # "none" THEN [err |-> q.err, rows |-> <<>>]
        ELSE [err |-> "none", rows |-> Select(table, q.clauses)]

\* the index in rowdict of the entry stored under key, 0 if there is none
KeyIndex(rowdict, key) ==
    IF \E k \in 1..Len(rowdict) : rowdict[k].key = key
    THEN CHOOSE k \in 1..Len(rowdict) : rowdict[k].key = key
    ELSE 0

\* the body of the loop with a row merged only into the descriptor of the
\* row just before it
GffStepAdjacent(rowdict, row) ==
    LET id_ == DictGet(JsonLoadsDict(row.Attributes), KeyID)
        n == Len(rowdict)
    IN  IF n > 0 /\ rowdict[n].key = id_
        THEN [rowdict EXCEPT ![n].spans = @ \o <<<<row.Start, row.End>>>>]
        ELSE rowdict \o <<[key |-> id_, name |-> id_, type |-> row.Type,
                           spans |-> <<<<row.Start, row.End>>>>]>>

\* the body of the loop of GffAnnotationDb.find_records: a new entry under
\* attr["ID"], or the row's span appended to the entry already there
GffStep(rowdict, row) ==
    LET id_ == DictGet(JsonLoadsDict(row.Attributes), KeyID)
        k == KeyIndex(rowdict, id_)
    IN  IF k = 0
        THEN rowdict \o <<[key |-> id_, name |-> id_, type |-> row.Type,
                           spans |-> <<<<row.Start, row.End>>>>]>>
        ELSE [rowdict EXCEPT ![k].spans = @ \o <<<<row.Start, row.End>>>>]

\* the loop of GffAnnotationDb.find_records over the query's rows
RECURSIVE GffFold(_, _, _)
GffFold(table, rowids, rowdict) ==
    IF rowids = <<>> THEN rowdict
    ELSE GffFold(table, Tail(rowids), GffStep(rowdict, table[Head(rowids)]))

\* the loop of GenbankAnnotationDb.find_records: the entry under the key
\* Locus_Tag + Type is assigned, replacing an earlier one in place
RECURSIVE GenbankFold(_, _, _)
GenbankFold(table, rowids, rowdict) ==
    IF rowids = <<>> THEN rowdict
    ELSE LET row == table[Head(rowids)]
             id_ == row.Locus_Tag
             dict_value == id_ \o row.Type
             entry == [key |-> dict_value, name |-> id_, type |-> row.Type,
                       spans |-> JsonLoadsSpans(row.Spans)]
             k == KeyIndex(rowdict, dict_value)
         IN  GenbankFold(table, Tail(rowids),
                 IF k = 0 THEN rowdict \o <<entry>>
                 ELSE [rowdict EXCEPT ![k] = entry])

\* list(rowdict.values())
Descriptors(rowdict) ==
    [k \in 1..Len(rowdict) |->
        [name |-> rowdict[k].name, type |-> rowdict[k].type,
         spans |-> rowdict[k].spans]]

\* find_records: [err, recs]; the GFF store does not hand strand on
FindRecords(store, table, args) ==
    LET q == DbQuery(store, table,
                     IF store = "gff" THEN [args EXCEPT !.strand = None] ELSE args)
    IN  IF q.err # "none" THEN [err |-> q.err, recs |-> <<>>]
        ELSE [err |-> "none",
              recs |-> Descriptors(IF store = "gff"
                                   THEN GffFold(table, q.rows, <<>>)
                                   ELSE GenbankFold(table, q.rows, <<>>))]

\* a store populated from a file of at most MaxRows records, and the
\* arguments of the call that is about to be made on it
LoadedStore ==
    /\ dbkind \in {"gff", "genbank"}
    /\ \/ /\ dbkind = "gff"
          /\ dbfile \in SeqsUpTo(GffFileRecords, MaxRows)
          /\ \E r \in {LoadGff(dbfile)} : dbload = r.err /\ rows = r.rows
       \/ /\ dbkind = "genbank"
          /\ \E features \in SeqsUpTo(GenbankFileFeatures, MaxRows) :
                 dbfile = <<SourceFeature>> \o features
          /\ \E r \in {LoadGenbank(GenbankLocus, dbfile)} :
                 dbload = r.err /\ rows = r.rows

InitDb ==
    /\ InitObjects
    /\ LoadedStore
    /\ IF dbload = "none" THEN dbargs \in QueryArgs ELSE dbargs = NoArgs
    /\ dbflags = NoFlags
    /\ dbres = NoRes

\* store.db_query(**dbargs)
CallDbQuery ==
    /\ dbload = "none"
    /\ \E r \in {DbQuery(dbkind, rows, dbargs)} :
           dbres' = [op |-> "db_query", err |-> r.err, rows |-> r.rows,
                     recs |-> <<>>]
    /\ UNCHANGED <<dbfile, dbload, rows, dbkind, dbargs, dbflags>>
    /\ UNCHANGED avars

\* store.find_records(**dbargs)
CallFindRecords ==
    /\ dbload = "none"
    /\ \E r \in {FindRecords(dbkind, rows, dbargs)} :
           dbres' = [op |-> "find_records", err |-> r.err, rows |-> <<>>,
                     recs |-> r.recs]
    /\ UNCHANGED <<dbfile, dbload, rows, dbkind, dbargs, dbflags>>
    /\ UNCHANGED avars

NextDb == CallDbQuery \/ CallFindRecords

SpecDb == InitDb /\ [][NextDb]_vars

\* the flags a caller may pass to describe
DescribeFlags == [seq_name : BOOLEAN, bio_type : BOOLEAN, identifier : BOOLEAN]

\* a chain of if / elif: only the first flag that is set is handled
DescribeKeysFirstOnly(store, flags) ==
    IF flags.seq_name THEN {IF store = "gff" THEN "SeqID" ELSE "LocusID"}
    ELSE IF flags.bio_type THEN {"Type"}
    ELSE IF flags.identifier THEN {"identifier"}
    ELSE {}

\* the keys of value_dict: one per flag that is set
DescribeKeys(store, flags) ==
    (IF flags.seq_name THEN {IF store = "gff" THEN "SeqID" ELSE "LocusID"} ELSE {})
    \cup (IF flags.bio_type THEN {"Type"} ELSE {})
    \cup (IF flags.identifier THEN {"identifier"} ELSE {})

\* the set built from "SELECT DISTINCT column" for one key of value_dict
DescribeValues(store, table, key) ==
    IF key = "identifier"
    THEN IF store = "gff"
         THEN {DictGet(JsonLoadsDict(table[i].Attributes), KeyID) :
                  i \in 1..Len(table)}
         ELSE {table[i].Locus_Tag : i \in 1..Len(table)}
    ELSE {table[i][key] : i \in 1..Len(table)}

\* describe: the dict value_dict (empty when no flag is set)
Describe(store, table, flags) ==
    [key \in DescribeKeys(store, flags) |-> DescribeValues(store, table, key)]

\* a loaded store and the flags of the describe call about to be made
InitDescribe ==
    /\ InitObjects
    /\ LoadedStore
    /\ dbargs = NoArgs
    /\ IF dbload = "none" THEN dbflags \in DescribeFlags ELSE dbflags = NoFlags
    /\ dbres = NoRes

\* store.describe(**dbflags)
CallDescribe ==
    /\ dbload = "none"
    /\ dbres' = [op |-> "describe", err |-> "none", rows |-> <<>>, recs |-> <<>>,
                 sets |-> Describe(dbkind, rows, dbflags)]
    /\ UNCHANGED <<dbfile, dbload, rows, dbkind, dbargs, dbflags>>
    /\ UNCHANGED avars

NextDescribe == CallDescribe

SpecDescribe == InitDescribe /\ [][NextDescribe]_vars

----------------------------------------------------------------------------
(* The queries on a container's annotations                                *)

\* the characters of the types and names features carry
Text ==
    [CDS |-> CDS, exon |-> <<"e", "x", "o", "n">>,
     fred |-> <<"f", "r", "e", "d">>, trev |-> <<"t", "r", "e", "v">>,
     slice |-> <<"s", "l", "i", "c", "e">>]

QueryTypes == {"CDS", "exon"}

\* the object graph after seq.add_feature("CDS", "fred", locations) was
\* called on the sequence and a second feature was added with
\* add_feature(t, "trev", nested) either to the sequence or to the first
\* feature; L is the length of the parent of the second feature
InitQuery ==
    /\ \E locations \in {<<<<0, 2>>>>, <<<<1, SeqLen>>>>, <<<<SeqLen - 2, SeqLen>>>>,
                          <<<<0, 1>>, <<1, 2>>, <<SeqLen - 1, SeqLen>>>>,
                          <<<<SeqLen - 2, SeqLen>>, <<0, SeqLen - 2>>>>},
          p \in {1, 2}, t \in QueryTypes :
          LET first == MapFromLocations(locations, SeqLen)
              L == IF p = 1 THEN SeqLen ELSE MapLength(first)
          IN  \E nested \in {<<<<0, 1>>>>, <<<<1, 1>>>>, <<<<1, L>>>>} :
              /\ map = [o \in Ids |->
                     IF o = 2 THEN first
                     ELSE IF o = 3 THEN MapFromLocations(nested, L)
                     ELSE MakeMap(<<>>, 0)]
              /\ parent = [o \in Ids |->
                     IF o = 2 THEN 1 ELSE IF o = 3 THEN p ELSE 0]
              /\ ftype = [o \in Ids |->
                     IF o = 2 THEN "CDS" ELSE IF o = 3 THEN t ELSE ""]
              /\ fname = [o \in Ids |->
                     IF o = 2 THEN "fred" ELSE IF o = 3 THEN "trev" ELSE ""]
              /\ annotations = [o \in Ids |->
                     IF o = 1 THEN (IF p = 1 THEN <<2, 3>> ELSE <<2>>)
                     ELSE IF o = 2 /\ p = 2 THEN <<3>> ELSE <<>>]
    /\ nobj = 3
    /\ kind = [o \in Ids |->
           IF o = 1 THEN "seq" ELSE IF o \in {2, 3} THEN "feature" ELSE "none"]
    /\ seqlen = [o \in Ids |-> IF o = 1 THEN SeqLen ELSE 0]
    /\ attached = [o \in Ids |-> o \in {2, 3}]
    /\ cls = [o \in Ids |-> IF o \in {2, 3} THEN "AnnotatableFeature" ELSE ""]
    /\ basemap = [o \in Ids |-> MakeMap(<<>>, 0)]
    /\ content = [o \in Ids |->
                      IF o = 1 THEN [i \in 1..SeqLen |-> i - 1] ELSE <<>>]
    /\ last = NoCall
    /\ ncalls = 0
    /\ rows = <<>>
    /\ dbkind = "gff"
    /\ dbfile = <<>>
    /\ dbload = "none"
    /\ dbargs = NoArgs
    /\ dbflags = NoFlags
    /\ dbres = NoRes

\* fnmatch.fnmatch(name, pat) where os.path.normcase leaves the case alone:
\* "*" matches any run of characters, "?" any one character, every other
\* character of these patterns itself
RECURSIVE FnMatch(_, _)
FnMatch(name, pat) ==
    IF pat = <<>> THEN name = <<>>
    ELSE IF Head(pat) = "*"
    THEN FnMatch(name, Tail(pat)) \/ (name # <<>> /\ FnMatch(Tail(name), pat))
    ELSE /\ name # <<>>
         /\ Head(pat) = "?" \/ Head(pat) = Head(name)
         /\ FnMatch(Tail(name), Tail(pat))

\* get_annotations_matching looking below the matching annotations alone
RECURSIVE GetAnnotationsMatchingBelowMatches(_, _, _, _)
GetAnnotationsMatchingBelowMatches(anns, annotation_type, name, extend_query) ==
    IF anns = <<>> THEN <<>>
    ELSE LET annotation == Head(anns)
         IN  (IF /\ FnMatch(Text[ftype[annotation]], annotation_type)
                 /\ (name = None \/ FnMatch(Text[fname[annotation]], Val(name)))
              THEN <<annotation>>
                   \o (IF extend_query
                       THEN GetAnnotationsMatchingBelowMatches(
                                annotations[annotation], annotation_type, name,
                                extend_query)
                       ELSE <<>>)
              ELSE <<>>)
             \o GetAnnotationsMatchingBelowMatches(Tail(anns), annotation_type,
                                                   name, extend_query)

\* the loop of get_annotations_matching(annotation_type, name, extend_query)
\* over the list anns; name is None or Some(pattern)
RECURSIVE GetAnnotationsMatching(_, _, _, _)
GetAnnotationsMatching(anns, annotation_type, name, extend_query) ==
    IF anns = <<>> THEN <<>>
    ELSE LET annotation == Head(anns)
         IN  (IF /\ FnMatch(Text[ftype[annotation]], annotation_type)
                 /\ (name = None \/ FnMatch(Text[fname[annotation]], Val(name)))
              THEN <<annotation>> ELSE <<>>)
             \o (IF extend_query
                 THEN GetAnnotationsMatching(annotations[annotation],
                          annotation_type, name, extend_query)
                 ELSE <<>>)
             \o GetAnnotationsMatching(Tail(anns), annotation_type, name,
                                       extend_query)

\* the loop of the generator get_by_annotation over the matching
\* annotations: what it yielded, and the exception that ended it.  The
\* segment self[annotation.map] of a sequence is a sequence when the map has
\* no gaps; the slice of a feature has no info to put the name in
RECURSIVE GetByAnnotationLoop(_, _, _, _)
GetByAnnotationLoop(c, matching, ignore_partial, yielded) ==
    IF matching = <<>> THEN [yielded |-> yielded, err |-> "none"]
    ELSE LET annotation == Head(matching)
             err == IF kind[c] = "seq" THEN SequenceMappedError(map[annotation])
                    ELSE IF cls[c] = "AnnotatableFeature" THEN "AttributeError"
                    ELSE IF cls[c] = "Source" THEN "TypeError"
                    ELSE "AttributeError"
         IN  IF err = "ValueError" /\ ignore_partial
             THEN GetByAnnotationLoop(c, Tail(matching), ignore_partial, yielded)
             ELSE IF err # "none" THEN [yielded |-> yielded, err |-> err]
             ELSE GetByAnnotationLoop(c, Tail(matching), ignore_partial,
                      Append(yielded,
                             [content |-> MappedContent(content[c], map[annotation]),
                              name |-> fname[annotation],
                              annotation |-> annotation]))

\* the queries.  A query leaves nothing behind in the object graph: it is
\* not counted in ncalls, and it is made in the states that the calls
\* which change the graph leave
QueryOps == {"get_by_annotation", "get_annotations_matching",
             "get_region_covering_all", "_as_map"}

\* list(c.get_by_annotation(annotation_type, name, ignore_partial)): the
\* segments are recorded by their bases and their name
GetByAnnotation(c, annotation_type, name, ignore_partial) ==
    /\ c \in Objects
    /\ last.op \notin QueryOps
    /\ UNCHANGED ncalls
    /\ \E r \in {GetByAnnotationLoop(c,
                     GetAnnotationsMatching(annotations[c], annotation_type,
                                            name, FALSE),
                     ignore_partial, <<>>)} :
          last' = [op |-> "get_by_annotation", src |-> c,
                   annotation_type |-> annotation_type, name |-> name,
                   ignore_partial |-> ignore_partial,
                   yielded |-> r.yielded, err |-> r.err]
    /\ UNCHANGED <<nobj, kind, seqlen, parent, attached, map, ftype, fname,
                   cls, basemap, content, annotations>>
    /\ UNCHANGED dbvars

\* c.get_annotations_matching(annotation_type, name, extend_query)
CallGetAnnotationsMatching(c, annotation_type, name, extend_query) ==
    /\ c \in Objects
    /\ last.op \notin QueryOps
    /\ last' = [op |-> "get_annotations_matching", err |-> "none", src |-> c,
                annotation_type |-> annotation_type, name |-> name,
                extend_query |-> extend_query,
                result |-> GetAnnotationsMatching(annotations[c],
                               annotation_type, name, extend_query)]
    /\ UNCHANGED <<nobj, kind, seqlen, parent, attached, map, ftype, fname,
                   cls, basemap, content, annotations, ncalls>>
    /\ UNCHANGED dbvars

\* Map.covered() leaving the spans as they are
MapCoveredKeepsSpans(m) == MakeMap(SelectSeq(m.spans, LAMBDA sp : ~sp.lost),
                                   m.parent_length)

\* the spans of Map.covered() from position from on: the stretches of
\* positions that lie under some span of m that is not lost, in ascending
\* order, each as one forward span
RECURSIVE CoveredSpans(_, _)
CoveredSpans(m, from) ==
    LET under == {x \in from..(m.parent_length - 1) :
                     \E i \in NonLost(m) :
                        m.spans[i].start <= x /\ x < m.spans[i].end}
    IN  IF under = {} THEN <<>>
        ELSE LET a == CHOOSE x \in under : \A y \in under : x <= y
                 b == CHOOSE y \in (a + 1)..m.parent_length :
                          /\ y \notin under
                          /\ \A z \in (a + 1)..(y - 1) : z \in under
             IN  <<Span(a, b, FALSE)>> \o CoveredSpans(m, b)

\* Map.covered(): the map of what the spans of m cover, without overlaps
MapCovered(m) == MakeMap(CoveredSpans(m, 0), m.parent_length)

\* c.get_region_covering_all(annots): a _Feature on c of type "region",
\* named after the distinct types of annots in the order they come, over
\* the map of what their spans cover.  It is not attached, and is recorded
\* by its fields
GetRegionCoveringAll(c, annots) ==
    /\ c \in Objects
    /\ \A i \in 1..Len(annots) : annots[i] \in Features
    /\ last.op \notin QueryOps
    /\ LET spans == Join([i \in 1..Len(annots) |-> map[annots[i]].spans], <<>>)
           first == {i \in 1..Len(annots) :
                        \A j \in 1..(i - 1) : ftype[annots[j]] # ftype[annots[i]]}
           annotation_types ==
               SelectSeq([i \in 1..Len(annots) |-> IF i \in first
                                                    THEN Text[ftype[annots[i]]]
                                                    ELSE <<>>],
                         LAMBDA t : t # <<>>)
       IN  last' = [op |-> "get_region_covering_all", err |-> "none",
                    src |-> c, annots |-> annots,
                    result |-> [parent |-> c, cls |-> "_Feature",
                                map |-> MapCovered(MakeMap(spans, ObjLen(c))),
                                type |-> <<"r", "e", "g", "i", "o", "n">>,
                                name |-> Join(annotation_types, <<",">>)]]
    /\ UNCHANGED <<nobj, kind, seqlen, parent, attached, map, ftype, fname,
                   cls, basemap, content, annotations, ncalls>>
    /\ UNCHANGED dbvars

\* the while loop of _as_map(feature): the containers from base upwards
\* that are not c and have a parent
RECURSIVE Containers(_, _)
Containers(base, c) ==
    IF base # c /\ kind[base] = "feature"
    THEN <<base>> \o Containers(parent[base], c)
    ELSE <<>>

\* the for loop of _as_map(feature): the feature, whose map is m, is
\* remapped to each container in turn with remapped_to(base, base.map);
\* _Feature.__init__ asserts that the new map is as long as base
RECURSIVE RemappedToContainers(_, _)
RemappedToContainers(m, containers) ==
    IF containers = <<>> THEN "none"
    ELSE LET base == Head(containers)
             newmap == MapGetItem(map[base], m)
         IN  IF newmap.parent_length # ObjLen(base) THEN "AssertionError"
             ELSE RemappedToContainers(newmap, Tail(containers))

\* c._as_map(feature).  "while feature" is false for a feature of length 0.
\* The map that is returned is the one assigned before the loops
AsMap(c, feature) ==
    /\ c \in Objects
    /\ feature \in Features
    /\ cls[feature] = "AnnotatableFeature"
    /\ last.op \notin QueryOps
    /\ LET containers == IF ObjLen(feature) # 0
                         THEN Containers(parent[feature], c) ELSE <<>>
           base == IF containers = <<>> THEN parent[feature]
                   ELSE parent[containers[Len(containers)]]
           err == IF base # c THEN "ValueError"
                  ELSE RemappedToContainers(map[feature], containers)
       IN  last' = [op |-> "_as_map", src |-> c, feature |-> feature,
                    err |-> err,
                    map |-> IF err = "none" THEN map[feature]
                            ELSE MakeMap(<<>>, 0)]
    /\ UNCHANGED <<nobj, kind, seqlen, parent, attached, map, ftype, fname,
                   cls, basemap, content, annotations, ncalls>>
    /\ UNCHANGED dbvars

\* the sequences are sliced and every container is queried, with the
\* patterns TypePatterns for the type and NamePatterns for the name
NextQuery ==
    LET TypePatterns == {CDS, <<"*">>, <<"c", "d", "s">>, <<"e", "?", "o", "*">>}
        PlainTypePatterns == {CDS, <<"*">>}
        NamePatterns == {None, Some(<<"t", "*">>)}
    IN
    \/ \E c \in {o \in Ids : kind[o] = "seq"}, a \in {0, 1}, b \in {2, SeqLen} :
          GetItem(c, a, b)
    \/ \E c \in Ids, annotation_type \in PlainTypePatterns,
          ignore_partial \in BOOLEAN :
          GetByAnnotation(c, annotation_type, None, ignore_partial)
    \/ \E c \in Ids, annotation_type \in TypePatterns, name \in NamePatterns,
          extend_query \in BOOLEAN :
          CallGetAnnotationsMatching(c, annotation_type, name, extend_query)
    \/ \E c \in Ids : \E annots \in SeqsUpTo(Range(annotations[c]), MaxAnnots) :
          GetRegionCoveringAll(c, annots)
    \/ \E c \in Ids, feature \in Ids : AsMap(c, feature)

SpecQuery == InitQuery /\ [][NextQuery]_vars

\* _shifted_annotations with the annotations left where they were
ShiftedAnnotationsUnshifted(c, newlen, shift) ==
    [i \in 1..Len(annotations[c]) |->
        LET annot == annotations[c][i]
        IN  [type |-> ftype[annot], name |-> fname[annot],
             map |-> MakeMap(map[annot].spans, newlen)]]

\* c._shifted_annotations(new, shift), new of length newlen: a copy of
\* every annotation of c, remapped onto new through the one-span map
\* [(shift, shift + len(c))]
ShiftedAnnotations(c, newlen, shift) ==
    LET newmap == MapFromLocations(<<<<shift, shift + ObjLen(c)>>>>, newlen)
    IN  [i \in 1..Len(annotations[c]) |->
            LET annot == annotations[c][i]
            IN  [type |-> ftype[annot], name |-> fname[annot],
                 map |-> Remapped(annot, newmap).map]]

\* x + y for two sequences: the new sequence holds the bases of x then
\* those of y, and the annotations of x shifted by 0 then those of y
\* shifted by len(x).  The new sequence is recorded by its bases and by
\* the type, name and map of its annotations
Concatenate(x, y) ==
    /\ x \in Objects /\ y \in Objects
    /\ kind[x] = "seq" /\ kind[y] = "seq"
    /\ ncalls < MaxCalls
    /\ ncalls' = ncalls + 1
    /\ \E newlen \in {ObjLen(x) + ObjLen(y)} :
          last' = [op |-> "add", err |-> "none", left |-> x, right |-> y,
                   content |-> content[x] \o content[y],
                   annotations |-> ShiftedAnnotations(x, newlen, 0)
                                   \o ShiftedAnnotations(y, newlen, ObjLen(x))]
    /\ UNCHANGED <<nobj, kind, seqlen, parent, attached, map, ftype, fname,
                   cls, basemap, content, annotations>>
    /\ UNCHANGED dbvars

NextJoin ==
    \/ \E c \in {o \in Ids : kind[o] = "seq"}, a \in {0, 1, 2},
          b \in {1, 2, SeqLen} : GetItem(c, a, b)
    \/ \E x \in Ids, y \in Ids : Concatenate(x, y)

SpecJoin == InitQuery /\ [][NextJoin]_vars

\* attaching, detaching and clearing on containers that already carry
\* features, and the features added to them
NextAttach ==
    \/ \E c \in Ids : AddAnnotation(c, "CDS", "fred", <<<<0, 1>>>>)
    \/ \E c \in Objects, annots \in SeqsUpTo(Features, MaxAnnots) :
          AttachAnnotations(c, annots)
    \/ \E c \in Objects, annots \in SeqsUpTo(Features, MaxAnnots) :
          DetachAnnotations(c, annots)
    \/ \E c \in Ids : ClearAnnotations(c)

SpecAttach == InitQuery /\ [][NextAttach]_vars

----------------------------------------------------------------------------
(* Properties of the object graph (checked under Spec)                     *)

\* C1: attach_annotations(annots) raises ValueError exactly when some
\* feature of annots has another parent or is already attached; it
\* succeeds only when every feature has parent self and is not attached.
C1_AttachFailsIffNotOwnedOrAttached ==
    [][last'.op = "attach_annotations" =>
       \A c \in Objects, n \in 0..MaxAnnots : \A annots \in [1..n -> Features] :
          AttachAnnotations(c, annots) =>
              ((last'.err = "ValueError") <=>
                  (\E i \in 1..Len(annots) :
                      parent[annots[i]] # c \/ attached[annots[i]]))]_vars

\* an attach has just been refused while some feature is attached
C1_Witness ==
    /\ last.op = "attach_annotations"
    /\ last.err = "ValueError"
    /\ \E f \in Features : attached[f] /\ f \in Range(annotations[parent[f]])

Occurrences(f, c) ==
    Cardinality({i \in 1..Len(annotations[c]) : annotations[c][i] = f})

\* C3: every feature occurs in the annotations list of at most one
\* container, at most once, and that container is the feature's parent.
C3_SingleOwner ==
    \A f \in Features : \A c \in Objects :
        Occurrences(f, c) > 0 => (Occurrences(f, c) = 1 /\ parent[f] = c)

\* C4: a feature's attached flag is true exactly when the feature is in
\* its parent's annotations list.
C4_AttachedIffListed ==
    \A f \in Features :
        attached[f] <=> f \in Range(annotations[parent[f]])


----------------------------------------------------------------------------
(* Properties of the annotation stores (checked under SpecDb)              *)

Queried(op) == dbres.op = op /\ dbres.err = "none"

AllRowIds == [i \in 1..Len(rows) |-> i]

\* the field of a row the identifier is matched against
IdField(row) == IF dbkind = "gff" THEN row.Attributes ELSE row.Locus_Tag

IsSubstring(sub, text) ==
    \E i \in 0..(Len(text) - Len(sub)) : SubSeq(text, i + 1, i + Len(sub)) = sub

\* the strand of a row written the way a caller of a GFF store writes it
StrandText(row) ==
    IF dbkind = "gff" THEN row.Strand
    ELSE IF row.Strand = 1 THEN Plus ELSE Minus

\* C5: a call of db_query or find_records with neither bio_type nor
\* identifier supplied fails with ValueError and returns no rows, whatever
\* seq_name, start and end are, on the GFF and on the GenBank store.
C5_NeitherBioTypeNorIdentifierFails ==
    (dbres.op # "init" /\ dbargs.bio_type = None /\ dbargs.identifier = None)
        => (dbres.err = "ValueError" /\ dbres.rows = <<>> /\ dbres.recs = <<>>)

\* C5: the call carried seq_name, start and end, the table holds a row of
\* that sequence, and the call failed.
C5_Witness ==
    /\ dbres.op \in {"db_query", "find_records"}
    /\ dbargs.bio_type = None /\ dbargs.identifier = None
    /\ dbargs.seq_name # None /\ dbargs.start # None /\ dbargs.end # None
    /\ \E i \in 1..Len(rows) :
           rows[i][IF dbkind = "gff" THEN "SeqID" ELSE "LocusID"] = Val(dbargs.seq_name)
    /\ dbres.err = "ValueError"

\* the range condition as the claim states it
InRangeFilter(row, start, end) ==
    /\ start # None => row.Start >= Val(start)
    /\ end # None => row.End < Val(end)

PassesFilters(row, args) ==
    /\ Truthy(args.seq_name) =>
           row[IF dbkind = "gff" THEN "SeqID" ELSE "LocusID"] = Val(args.seq_name)
    /\ Truthy(args.bio_type) => row.Type = Val(args.bio_type)
    /\ Truthy(args.identifier) =>
           Like(<<"%">> \o Val(args.identifier) \o <<"%">>, IdField(row))
    /\ InRangeFilter(row, args.start, args.end)

\* C7 as stated: a query returns exactly the rows that satisfy every
\* supplied filter among seq_name, bio_type, identifier, start, end and
\* strand.
C7_EverySuppliedFilterRestricts ==
    Queried("db_query") =>
        dbres.rows =
            SelectSeq(AllRowIds,
                      LAMBDA i : /\ PassesFilters(rows[i], dbargs)
                                 /\ dbargs.strand # None =>
                                        StrandText(rows[i]) = Val(dbargs.strand))

\* C7 amended: a query returns exactly the rows that satisfy every supplied
\* filter among seq_name, bio_type, identifier, start and end; an empty
\* text counts as omitted, and strand restricts nothing.
C7_SuppliedFiltersButStrandRestrict ==
    Queried("db_query") =>
        dbres.rows = SelectSeq(AllRowIds, LAMBDA i : PassesFilters(rows[i], dbargs))

\* C7: all six filters were supplied, a row was left out, and a row of the
\* other strand was returned.
C7_Witness ==
    /\ Queried("db_query")
    /\ Truthy(dbargs.seq_name) /\ Truthy(dbargs.bio_type)
    /\ Truthy(dbargs.identifier)
    /\ dbargs.start # None /\ dbargs.end # None /\ dbargs.strand # None
    /\ \E i \in 1..Len(rows) : i \notin Range(dbres.rows)
    /\ \E j \in Range(dbres.rows) : StrandText(rows[j]) # Val(dbargs.strand)

\* C8 as stated: with an identifier supplied, a row that passes the other
\* filters is returned iff the identifier is a contiguous substring of the
\* row's Attributes text (GFF) or Locus_Tag (GenBank).
C8_IdentifierMatchesBySubstring ==
    (Queried("db_query") /\ Truthy(dbargs.identifier)) =>
        dbres.rows =
            SelectSeq(AllRowIds,
                      LAMBDA i : /\ PassesFilters(rows[i],
                                        [dbargs EXCEPT !.identifier = None])
                                 /\ IsSubstring(Val(dbargs.identifier),
                                                IdField(rows[i])))

\* the ID attribute of a row of table GFF
RowId(row) == DictGet(JsonLoadsDict(row.Attributes), KeyID)

\* the rows the query behind find_records returns
QueryRows == DbQuery(dbkind, rows, dbargs).rows

\* the rows of that query, in the order returned, that carry the name
RowsNamed(name, NameOf(_)) ==
    SelectSeq(QueryRows, LAMBDA i : NameOf(rows[i]) = name)

\* one descriptor per distinct name among the returned rows, in the order
\* the names are first seen
OnePerName(NameOf(_)) ==
    /\ \A k, l \in 1..Len(dbres.recs) :
           dbres.recs[k].name = dbres.recs[l].name => k = l
    /\ {dbres.recs[k].name : k \in 1..Len(dbres.recs)}
           = {NameOf(rows[i]) : i \in Range(QueryRows)}
    /\ \A k, l \in 1..Len(dbres.recs) :
           k < l =>
               \E m \in 1..Len(QueryRows) :
                   /\ NameOf(rows[QueryRows[m]]) = dbres.recs[k].name
                   /\ \A n \in 1..m :
                          NameOf(rows[QueryRows[n]]) # dbres.recs[l].name

\* C9: find_records of the GFF store returns one descriptor per distinct
\* ID among the rows of the query, adjacent or not, in the order the IDs
\* are first seen, each with the (Start, End) pairs of its rows in the
\* order the query returned them.
C9_GffOneDescriptorPerId ==
    (dbkind = "gff" /\ Queried("find_records")) =>
        /\ OnePerName(RowId)
        /\ \A k \in 1..Len(dbres.recs) :
               LET mine == RowsNamed(dbres.recs[k].name, RowId)
               IN  dbres.recs[k].spans
                       = [m \in 1..Len(mine) |->
                             <<rows[mine[m]].Start, rows[mine[m]].End>>]

\* C9: the query returned two rows of one ID with a row of another ID
\* between them, and the descriptor of the first ID has both spans.
C9_Witness ==
    /\ dbkind = "gff" /\ Queried("find_records")
    /\ Len(QueryRows) = 3
    /\ RowId(rows[QueryRows[1]]) = RowId(rows[QueryRows[3]])
    /\ RowId(rows[QueryRows[1]]) # RowId(rows[QueryRows[2]])
    /\ Len(dbres.recs) = 2
    /\ Len(dbres.recs[1].spans) = 2
    /\ dbres.recs[1].spans[1] # dbres.recs[1].spans[2]

RowLocusTag(row) == row.Locus_Tag

RECURSIVE ConcatSpans(_, _)
ConcatSpans(table, rowids) ==
    IF rowids = <<>> THEN <<>>
    ELSE JsonLoadsSpans(table[Head(rowids)].Spans) \o ConcatSpans(table, Tail(rowids))

\* C10 as stated: find_records of the GenBank store returns one descriptor
\* per distinct locus tag among the rows of the query, in first-seen order,
\* whose spans are the span lists of the rows of that tag joined in the
\* order returned.
C10_GenbankOneDescriptorPerLocusTag ==
    (dbkind = "genbank" /\ Queried("find_records")) =>
        /\ OnePerName(RowLocusTag)
        /\ \A k \in 1..Len(dbres.recs) :
               dbres.recs[k].spans
                   = ConcatSpans(rows, RowsNamed(dbres.recs[k].name, RowLocusTag))


\* the rows of the loaded table are read back: the attributes by json.loads
RowAsRecord(row) == [row EXCEPT !.Attributes = JsonLoadsDict(row.Attributes)]

\* C11: after a load of n records the GFF store holds n rows, row i made
\* from record i; equal records are stored as often as they occur.
C11_GffLoadKeepsEveryRecord ==
    (dbkind = "gff" /\ dbload = "none") =>
        /\ Len(rows) = Len(dbfile)
        /\ \A i \in 1..Len(dbfile) : RowAsRecord(rows[i]) = dbfile[i]

\* C11: a file of three records, two of them equal with another record
\* between them, was loaded into three rows.
C11_Witness ==
    /\ dbkind = "gff" /\ dbload = "none"
    /\ Len(dbfile) = 3 /\ Len(rows) = 3
    /\ dbfile[1] = dbfile[3] /\ dbfile[1] # dbfile[2]
    /\ rows[1] = rows[3] /\ rows[1] # rows[2]

\* record i of the file lacks a field the load reads from it; the first
\* feature of a GenBank record is never loaded and is not looked at
LacksRequiredField(i) ==
    IF dbkind = "gff"
    THEN \E k \in 1..Len(GffKeys) : GffKeys[k] \notin DOMAIN dbfile[i]
    ELSE i > 1 /\ dbfile[i].locus_tag = None

\* C12 as stated: on both stores a record that lacks a required field makes
\* the load fail; none is skipped by a load that succeeds.
C12_MissingFieldFailsLoad ==
    (\E i \in 1..Len(dbfile) : LacksRequiredField(i)) => dbload # "none"


\* the identifier of a row: its ID attribute (GFF), its locus tag (GenBank)
IdentifierOf(row) == IF dbkind = "gff" THEN RowId(row) ELSE row.Locus_Tag

\* the key of the result a flag stands for, and the values the claim
\* gives it
FlagKey(flag) ==
    IF flag = "seq_name" THEN (IF dbkind = "gff" THEN "SeqID" ELSE "LocusID")
    ELSE IF flag = "bio_type" THEN "Type"
    ELSE "identifier"

FlagValues(flag) ==
    IF flag = "seq_name" THEN {rows[i][FlagKey(flag)] : i \in 1..Len(rows)}
    ELSE IF flag = "bio_type" THEN {rows[i].Type : i \in 1..Len(rows)}
    ELSE {IdentifierOf(rows[i]) : i \in 1..Len(rows)}

----------------------------------------------------------------------------
(* Claims about the feature operations, checked under SpecFeature          *)

\* the spans of map m that are not lost, in the order they have in m
KeptSpans(m) ==
    [k \in 1..Cardinality(NonLost(m)) |->
        m.spans[CHOOSE i \in NonLost(m) :
                    Cardinality({j \in NonLost(m) : j <= i}) = k]]

C15_WithoutLostSpansKeepsNonGapSpans ==
    [][last'.op = "without_lost_spans" =>
         LET f == last'.feature
             r == last'.new
         IN  IF MapComplete(map[f])
             THEN last'.err = "none" /\ r = f /\ nobj' = nobj
             ELSE /\ last'.err = "none"
                  /\ r \notin Objects /\ kind'[r] = "feature"
                  /\ cls'[r] = cls[f] /\ parent'[r] = parent[f]
                  /\ ftype'[r] = ftype[f] /\ fname'[r] = fname[f]
                  /\ map'[r].spans = KeptSpans(map[f])
                  /\ MapComplete(map'[r])]_vars

\* C16 as stated: copy_annotations_to(target) succeeds exactly when target
\* is as long as the parent of the feature.  On success target gains one
\* attached feature of the same class, type, name and map whose parent is
\* target, and no other annotation list and no existing feature changes;
\* on failure no annotation list changes.
C16_CopySucceedsIffSameLength ==
    [][last'.op = "copy_annotations_to" =>
         LET f == last'.feature
             target == last'.target
             new == last'.new
         IN  /\ last'.err = "none" <=> ObjLen(target) = ObjLen(parent[f])
             /\ last'.err = "none" =>
                    /\ new \notin Objects /\ kind'[new] = "feature"
                    /\ annotations' =
                           [annotations EXCEPT ![target] = @ \o <<new>>]
                    /\ parent'[new] = target /\ attached'[new]
                    /\ cls'[new] = cls[f] /\ ftype'[new] = ftype[f]
                    /\ fname'[new] = fname[f] /\ map'[new] = map[f]
                    /\ \A o \in Objects :
                           /\ parent'[o] = parent[o] /\ map'[o] = map[o]
                           /\ ftype'[o] = ftype[o] /\ fname'[o] = fname[o]
                           /\ attached'[o] = attached[o] /\ cls'[o] = cls[o]
             /\ last'.err # "none" => annotations' = annotations]_vars

\* C17 as stated: reverse-complement propagation from c to the new
\* container n gives n one new attached feature per annotation of c, in the
\* same order, with the type, name and class of its source and the map of
\* its source passed through nucleic_reversed(); the annotation list of c
\* and the features in it stay as they were.
C17_ReverseComplementCopiesEveryFeature ==
    [][last'.op = "rc" =>
         LET c == last'.src
             n == last'.new
         IN  /\ seqlen'[n] = seqlen[c]
             /\ Len(annotations'[n]) = Len(annotations[c])
             /\ \A i \in 1..Len(annotations[c]) :
                    LET s == annotations[c][i]
                        g == annotations'[n][i]
                    IN  /\ g \notin Objects
                        /\ \A j \in 1..Len(annotations[c]) :
                               annotations'[n][j] = g => j = i
                        /\ parent'[g] = n /\ attached'[g]
                        /\ ftype'[g] = ftype[s] /\ fname'[g] = fname[s]
                        /\ cls'[g] = cls[s]
                        /\ map'[g] = NucleicReversed(map[s])
                        /\ map'[s] = map[s] /\ parent'[s] = parent[s]
                        /\ ftype'[s] = ftype[s] /\ fname'[s] = fname[s]
                        /\ attached'[s] = attached[s]
                        /\ annotations'[s] = annotations[s]
             /\ annotations'[c] = annotations[c]]_vars

\* C18: when a sequence is reverse complemented and the result is reverse
\* complemented again, the second result carries as many features as the
\* original, and feature i of it has the map of feature i of the original:
\* the same spans (start, end, reverse flag) in the same order.
C18_ReverseComplementTwiceRestoresMaps ==
    [][(/\ last.op = "rc" /\ last.err = "none"
        /\ last'.op = "rc" /\ last'.err = "none"
        /\ last'.src = last.new) =>
         LET c == last.src
             n == last'.new
         IN  /\ Len(annotations'[n]) = Len(annotations[c])
             /\ \A i \in 1..Len(annotations[c]) :
                    map'[annotations'[n][i]] = map[annotations[c][i]]]_vars

\* C18: a sequence whose feature has three spans on the reverse strand, as
\* reverse complement leaves them, was reverse complemented, and the copy of
\* the feature has its three spans on the forward strand.
C18_Witness ==
    /\ last.op = "rc" /\ last.err = "none"
    /\ \E i \in 1..Len(annotations[last.new]) :
           LET g == annotations[last.new][i]
               s == annotations[last.src][i]
           IN  /\ Len(map[g].spans) = 3
               /\ \A k \in 1..3 : ~map[g].spans[k].reverse
               /\ \A k \in 1..3 : map[s].spans[k].reverse

\* the maps nucleic_reversed() was applied to by the last step, each with
\* the map it returned
ReversedMaps ==
    {<<map[annotations[last'.src][i]], map'[annotations'[last'.new][i]]>> :
        i \in 1..Len(annotations'[last'.new])}

\* C19: nucleic_reversed() on a map of parent length L returns a map on the
\* same parent with as many spans, where span i of the result is on the
\* other strand than span i of the original and runs from L - end to
\* L - start of it (a lost span stays lost); and reversed_relative_to(L)
\* applied twice to a span gives the span back.
C19_NucleicReversedMirrorsSpanBySpan ==
    [][(last'.op = "rc" /\ last'.err = "none") =>
         \A p \in ReversedMaps :
             LET m == p[1]
                 r == p[2]
                 L == m.parent_length
             IN  /\ r.parent_length = L
                 /\ Len(r.spans) = Len(m.spans)
                 /\ \A i \in 1..Len(m.spans) :
                        /\ r.spans[i].lost = m.spans[i].lost
                        /\ ~m.spans[i].lost =>
                               /\ r.spans[i].start = L - m.spans[i].end
                               /\ r.spans[i].end = L - m.spans[i].start
                               /\ r.spans[i].reverse = ~m.spans[i].reverse
                        /\ SpanReversedRelativeTo(
                               SpanReversedRelativeTo(m.spans[i], L), L)
                               = m.spans[i]]_vars

\* C19: a sequence carrying a feature of three spans was reverse
\* complemented: the copy has three spans on the reverse strand, the first of
\* them nearer to the end of the sequence than the last.
C19_Witness ==
    /\ last.op = "rc" /\ last.err = "none"
    /\ \E i \in 1..Len(annotations[last.new]) :
           LET r == map[annotations[last.new][i]]
           IN  /\ Len(r.spans) = 3
               /\ \A k \in 1..3 : r.spans[k].reverse
               /\ r.spans[1].start > r.spans[3].start

\* C20 as stated: nucleic_reversed() emits the spans in the reverse of their
\* list order: span i of the result (counted from 0) is the mirror image of
\* span k-1-i of the original, k the number of spans.
C20_NucleicReversedReversesListOrder ==
    [][(last'.op = "rc" /\ last'.err = "none") =>
         \A p \in ReversedMaps :
             \A i \in 1..Len(p[1].spans) :
                 p[2].spans[i] =
                     SpanReversedRelativeTo(p[1].spans[Len(p[1].spans) + 1 - i],
                                            p[1].parent_length)]_vars

\* C20, amended: nucleic_reversed() keeps the list order of the spans: span
\* i of the result is the mirror image of span i of the original, and of
\* no other span of the original that differs from span i.
C20_NucleicReversedKeepsListOrder ==
    [][(last'.op = "rc" /\ last'.err = "none") =>
         \A p \in ReversedMaps :
             \A i, j \in 1..Len(p[1].spans) :
                 (p[2].spans[i] =
                      SpanReversedRelativeTo(p[1].spans[j], p[1].parent_length))
                 <=> p[1].spans[j] = p[1].spans[i]]_vars

\* C20: the map [(0,1), (1,2), (3,4)] on a sequence of length 4 was passed
\* through nucleic_reversed(): the result begins with the mirror image
\* (3,4) of its first span and ends with the mirror image (0,1) of its last.
C20_Witness ==
    /\ last.op = "rc" /\ last.err = "none"
    /\ \E i \in 1..Len(annotations[last.new]) :
           LET m == map[annotations[last.src][i]]
               r == map[annotations[last.new][i]]
           IN  /\ Len(m.spans) = 3
               /\ m.spans[1] = Span(0, 1, FALSE)
               /\ m.spans[3] = Span(SeqLen - 1, SeqLen, FALSE)
               /\ r.spans[1] = Span(SeqLen - 1, SeqLen, TRUE)
               /\ r.spans[3] = Span(0, 1, TRUE)

----------------------------------------------------------------------------
(* Claims about slicing and the queries on annotations                     *)

\* the extent [start, end) of map m overlaps the extent of the slice
ExtentOverlaps(m, slicemap) ==
    /\ MapUseful(m)
    /\ MapStart(m) < MapEnd(slicemap)
    /\ MapEnd(m) > MapStart(slicemap)

\* some span of m that is not lost has a position inside the slice
SpanInSlice(m, slicemap) ==
    \E i \in NonLost(m) :
        /\ m.spans[i].start < MapEnd(slicemap)
        /\ m.spans[i].end > MapStart(slicemap)

\* the annotations of the new container made by the last step are copies of
\* the annotations kept of the sliced container, one each and in order
CarriedOver(kept) ==
    LET new == last'.new
    IN  /\ Len(annotations'[new]) = Len(kept)
        /\ \A k \in 1..Len(kept) :
               LET g == annotations'[new][k]
               IN  /\ g \notin Objects
                   /\ parent'[g] = new /\ attached'[g]
                   /\ ftype'[g] = ftype[kept[k]]
                   /\ fname'[g] = fname[kept[k]]
                   /\ cls'[g] = cls[kept[k]]

\* C21 as stated: container[a:b] carries over, in order, exactly the
\* annotations whose extent [map.start, map.end) overlaps [a, b).
C21_SliceKeepsOverlappingExtents ==
    [][(last'.op = "getitem" /\ last'.err = "none") =>
         CarriedOver(SelectSeq(annotations[last'.src],
             LAMBDA s : ExtentOverlaps(map[s], last'.map)))]_vars

\* C21, amended: container[a:b] carries over, in order, exactly the
\* annotations of which a span that is not lost reaches into [a, b); an
\* annotation whose extent overlaps the slice only by a stretch between its
\* spans is dropped, without an error, like those that lie outside.
C21_SliceKeepsSpansInSlice ==
    [][(last'.op = "getitem" /\ last'.err = "none") =>
         CarriedOver(SelectSeq(annotations[last'.src],
             LAMBDA s : SpanInSlice(map[s], last'.map)))]_vars

\* C21: a sequence with an annotation whose extent overlaps the slice and
\* that has no span in it was sliced, and the new sequence has no
\* annotation.
C21_Witness ==
    /\ last.op = "getitem" /\ last.err = "none"
    /\ kind[last.src] = "seq"
    /\ \E i \in 1..Len(annotations[last.src]) :
           /\ ExtentOverlaps(map[annotations[last.src][i]], last.map)
           /\ ~SpanInSlice(map[annotations[last.src][i]], last.map)
    /\ annotations[last.new] = <<>>

\* C27: the map of every feature is over as many positions as its parent
\* has, however the feature was made.
C27_MapParentLengthIsLenOfParent ==
    \A f \in Features : map[f].parent_length = ObjLen(parent[f])

----------------------------------------------------------------------------
(* Claims about the queries, checked under SpecQuery                       *)

\* the bases of text from position a up to b, for each forward span [a, b)
\* of spans in turn
RECURSIVE BasesUnder(_, _)
BasesUnder(text, spans) ==
    IF spans = <<>> THEN <<>>
    ELSE [i \in 1..(Head(spans).end - Head(spans).start) |->
             text[Head(spans).start + i]]
         \o BasesUnder(text, Tail(spans))

\* the bases of sequence c under the part of map m that lies in the extent
\* of slicemap
ContentInSlice(c, m, slicemap) ==
    LET a == MapStart(slicemap)
        b == MapEnd(slicemap)
        clipped == [i \in 1..Len(m.spans) |->
                       Span(Max2(m.spans[i].start, a), Min2(m.spans[i].end, b),
                            m.spans[i].reverse)]
    IN  BasesUnder(content[c], SelectSeq(clipped, LAMBDA sp : sp.start < sp.end))

\* the annotations of c of the type asked for that reach into the slice
MatchingInSlice(c, annotation_type, slicemap) ==
    SelectSeq(annotations[c],
        LAMBDA f : /\ Text[ftype[f]] = annotation_type
                   /\ SpanInSlice(map[f], slicemap))

\* map m lies wholly in the extent of slicemap
WhollyInSlice(m, slicemap) ==
    MapStart(slicemap) <= MapStart(m) /\ MapEnd(m) <= MapEnd(slicemap)

\* a call of get_by_annotation with the type alone, on the sequence that the
\* call before it sliced out of a sequence
QueriedTheSlice ==
    /\ last.op = "getitem" /\ last.err = "none" /\ kind[last.src] = "seq"
    /\ last'.op = "get_by_annotation" /\ last'.src = last.new
    /\ last'.name = None
    /\ \E t \in QueryTypes : last'.annotation_type = Text[t]

ShellMatches(text, pat) ==
    IF pat = <<"*">> THEN TRUE
    ELSE IF pat = <<"e", "?", "o", "*">>
    THEN Len(text) >= 3 /\ text[1] = "e" /\ text[3] = "o"
    ELSE IF pat = <<"t", "*">> THEN Len(text) >= 1 /\ text[1] = "t"
    ELSE text = pat

\* feature f has a type and a name that the last query asks for
Asked(f) ==
    /\ ShellMatches(Text[ftype[f]], last'.annotation_type)
    /\ last'.name # None => ShellMatches(Text[fname[f]], Val(last'.name))

\* the features among anns that are asked for, in list order, each followed
\* by what is asked for among its own annotations when recurse is set
RECURSIVE AskedBelowMatches(_, _)
AskedBelowMatches(anns, recurse) ==
    IF anns = <<>> THEN <<>>
    ELSE (IF Asked(Head(anns))
          THEN <<Head(anns)>>
               \o (IF recurse
                   THEN AskedBelowMatches(annotations[Head(anns)], recurse)
                   ELSE <<>>)
          ELSE <<>>)
         \o AskedBelowMatches(Tail(anns), recurse)

\* the features among anns that are asked for, in list order; when recurse
\* is set every feature of anns, asked for or not, is followed by what is
\* asked for below it
RECURSIVE AskedBelowAll(_, _)
AskedBelowAll(anns, recurse) ==
    IF anns = <<>> THEN <<>>
    ELSE (IF Asked(Head(anns)) THEN <<Head(anns)>> ELSE <<>>)
         \o (IF recurse THEN AskedBelowAll(annotations[Head(anns)], recurse)
             ELSE <<>>)
         \o AskedBelowAll(Tail(anns), recurse)

\* C24 as stated: get_annotations_matching returns, in list order, the
\* attached features whose type and name match the patterns, case
\* sensitively; with recursion each matched feature is followed by the
\* matches among that feature's own sub-annotations.
C24_MatchesThenTheirSubAnnotations ==
    [][last'.op = "get_annotations_matching" =>
         last'.result = AskedBelowMatches(annotations[last'.src],
                                          last'.extend_query)]_vars

\* C24, amended: with recursion every attached feature, matched or not, is
\* followed by the matches found in the same way among its sub-annotations.
C24_MatchesThenAllSubAnnotations ==
    [][last'.op = "get_annotations_matching" =>
         last'.result = AskedBelowAll(annotations[last'.src],
                                      last'.extend_query)]_vars

\* C24: a recursive query returned a sub-annotation of a feature that does
\* not match, and a query with a pattern in the other case returned nothing
\* of a container that has annotations.
C24_Witness ==
    /\ last.op = "get_annotations_matching"
    /\ \/ /\ last.extend_query
          /\ \E k \in 1..Len(last.result) :
                 /\ parent[last.result[k]] # last.src
                 /\ parent[last.result[k]] \notin Range(last.result)
       \/ /\ last.annotation_type = <<"c", "d", "s">>
          /\ annotations[last.src] # <<>>
          /\ last.result = <<>>

\* the positions that lie under a span of the features annots
PositionsUnder(annots) ==
    {x \in 0..SeqLen : \E i \in 1..Len(annots) :
        \E k \in NonLost(map[annots[i]]) :
            /\ map[annots[i]].spans[k].start <= x
            /\ x < map[annots[i]].spans[k].end}

\* m is the union of the spans of annots without gaps and with what
\* overlaps or touches collapsed: spans that are not lost, in ascending
\* order and apart, over exactly the positions under the features
UnionOf(m, annots) ==
    /\ \A k \in 1..Len(m.spans) :
           ~m.spans[k].lost /\ m.spans[k].start < m.spans[k].end
    /\ \A k \in 1..(Len(m.spans) - 1) : m.spans[k].end < m.spans[k + 1].start
    /\ PositionsUnder(annots)
       = {x \in 0..SeqLen : \E k \in 1..Len(m.spans) :
             m.spans[k].start <= x /\ x < m.spans[k].end}

\* text lists, with commas between, the distinct types of annots in the
\* order in which they first come
JoinedTypes(text, annots) ==
    \E d \in SeqsUpTo(QueryTypes, Cardinality(QueryTypes)) :
        /\ text = Join([k \in 1..Len(d) |-> Text[d[k]]], <<",">>)
        /\ Range(d) = {ftype[annots[i]] : i \in 1..Len(annots)}
        /\ \A k \in 1..Len(d), l \in 1..Len(d) : k # l => d[k] # d[l]
        /\ \A k \in 1..Len(d), l \in 1..Len(d) :
               k < l => \E i \in 1..Len(annots) :
                           /\ ftype[annots[i]] = d[k]
                           /\ \A j \in 1..i : ftype[annots[j]] # d[l]

\* C25 as stated: get_region_covering_all(features) returns one feature on
\* the container, over the union of the spans of the features, whose type
\* and whose name are the comma-joined distinct types of the features.
C25_RegionTypedByInputTypes ==
    [][last'.op = "get_region_covering_all" =>
         /\ last'.result.parent = last'.src
         /\ last'.result.map.parent_length = ObjLen(last'.src)
         /\ UnionOf(last'.result.map, last'.annots)
         /\ JoinedTypes(last'.result.type, last'.annots)
         /\ JoinedTypes(last'.result.name, last'.annots)]_vars

\* C25, amended: the feature returned has the type "region"; its name is
\* the comma-joined list of the distinct types of the features.
C25_RegionNamedByInputTypes ==
    [][last'.op = "get_region_covering_all" =>
         /\ last'.result.parent = last'.src
         /\ last'.result.map.parent_length = ObjLen(last'.src)
         /\ UnionOf(last'.result.map, last'.annots)
         /\ last'.result.type = <<"r", "e", "g", "i", "o", "n">>
         /\ JoinedTypes(last'.result.name, last'.annots)]_vars

\* C25: the region covering two features of different types whose spans
\* overlap was asked for, and it has one span.
C25_Witness ==
    /\ last.op = "get_region_covering_all"
    /\ Len(last.annots) = 2
    /\ ftype[last.annots[1]] # ftype[last.annots[2]]
    /\ \E x \in PositionsUnder(<<last.annots[1]>>) :
           x \in PositionsUnder(<<last.annots[2]>>)
    /\ Len(last.result.map.spans) = 1

\* C26: with ignore_partial set, get_by_annotation raises no ValueError and
\* yields, in list order, the segment of every matching annotation whose
\* map is complete; without it, it yields the segments of the matching
\* annotations that come before the first whose map is not complete and
\* then raises ValueError.
C26_IgnorePartialSkipsElseRaisesAfterYields ==
    [][last'.op = "get_by_annotation" =>
         LET matching == SelectSeq(annotations[last'.src], Asked)
             whole == SelectSeq(matching, LAMBDA f : MapComplete(map[f]))
             partial == {k \in 1..Len(matching) : ~MapComplete(map[matching[k]])}
             yielded == [k \in 1..Len(last'.yielded) |->
                            last'.yielded[k].annotation]
         IN  IF last'.ignore_partial \/ partial = {}
             THEN last'.err = "none" /\ yielded = whole
             ELSE /\ last'.err = "ValueError"
                  /\ \E k \in partial :
                         /\ \A l \in partial : k <= l
                         /\ yielded = SubSeq(matching, 1, k - 1)]_vars

\* container c is reached from feature f by parent links
RECURSIVE ReachedFrom(_, _)
ReachedFrom(c, f) ==
    \/ parent[f] = c
    \/ kind[parent[f]] = "feature" /\ ReachedFrom(c, parent[f])

\* the map of f in the frame of its ancestor c: the map of f composed with
\* the map of every feature between f and c
RECURSIVE ComposedMap(_, _)
ComposedMap(c, f) ==
    IF parent[f] = c THEN map[f]
    ELSE MapGetItem(ComposedMap(c, parent[f]), map[f])

\* C28: c._as_map(f) raises ValueError exactly when c is not reached from f
\* by parent links, and returns a map without an error for every f from
\* which c is reached, whatever the length of f.
C28_AsMapFailsIffNotDescendant ==
    [][last'.op = "_as_map" =>
         IF ReachedFrom(last'.src, last'.feature)
         THEN last'.err = "none"
         ELSE last'.err = "ValueError"]_vars

\* C30: for f below a feature below c, c._as_map(f) returns the map of f
\* in the frame of c: over len(c) positions, and composed with the map of
\* every feature between f and c.
C30_AsMapComposesThroughAncestors ==
    [][(/\ last'.op = "_as_map"
        /\ parent[last'.feature] # last'.src
        /\ ReachedFrom(last'.src, last'.feature)) =>
         /\ last'.err = "none"
         /\ last'.map.parent_length = ObjLen(last'.src)
         /\ last'.map = ComposedMap(last'.src, last'.feature)]_vars

----------------------------------------------------------------------------
(* Claims about concatenation, checked under SpecJoin                      *)

\* spans moved by shift
ShiftedSpans(spans, shift) ==
    [k \in 1..Len(spans) |->
        Span(spans[k].start + shift, spans[k].end + shift, spans[k].reverse)]

\* the sum last' records is c[:i] + c[j:] for the first sequence c
JoinedCuts(i, j) ==
    /\ last'.op = "add" /\ last'.err = "none"
    /\ last'.left # 1 /\ last'.right # 1
    /\ 1 <= i /\ i <= j /\ j < SeqLen
    /\ content[last'.left] = SubSeq(content[1], 1, i)
    /\ content[last'.right] = SubSeq(content[1], j + 1, SeqLen)

\* the sum last' records carries feature f of the first sequence, moved by
\* shift, and has under it the bases the first sequence has under f
CarriesShifted(f, shift) ==
    \E k \in 1..Len(last'.annotations) :
        LET annot == last'.annotations[k]
        IN  /\ annot.type = ftype[f] /\ annot.name = fname[f]
            /\ annot.map.spans = ShiftedSpans(map[f].spans, shift)
            /\ annot.map.parent_length = Len(last'.content)
            /\ BasesUnder(last'.content, annot.map.spans)
               = BasesUnder(content[1], map[f].spans)

----------------------------------------------------------------------------
(* Claims about attaching and detaching, checked under SpecAttach          *)

\* C29: an attach_annotations or detach_annotations call that raises
\* leaves every annotation list and every attached flag as it was.
C29_FailingAttachOrDetachChangesNothing ==
    [][(/\ last'.op \in {"attach_annotations", "detach_annotations"}
        /\ last'.err # "none") =>
         UNCHANGED <<annotations, attached>>]_vars

====
